---- MODULE Spec2Model ----
(***************************************************************************)
(* The snake-draft state machine of the fantasy draft simulator            *)
(* (src/src/draft-simulator/llm_draft_auto_drafting.py, team.py,           *)
(* drafter_multi_agent.py).                                                *)
(*                                                                         *)
(* A player name is a sequence of word tokens (<<"Josh","Allen">>); lower  *)
(* casing and substring search work on the tokens.  The empty sequence is  *)
(* Python's None / "" for a name (both are falsy in `if player_name:`);    *)
(* 0 is None for a player or a team.  Console output (print, the roster    *)
(* displays) and time.sleep are not modelled.  input() is a value supplied *)
(* by the environment; the conversation of the agents is a value supplied  *)
(* by the environment too: it either raises or completes, and it leaves    *)
(* the final-selection messages "I select <name> **TERMINATE**" that the   *)
(* user proxy captured.                                                    *)
(***************************************************************************)
EXTENDS Naturals, Integers, Sequences, FiniteSets, TLC

VARIABLES
    pc,               \* position of the program: "setup", "clock", "chat",
                      \* "choose", "command", "name", "retry", "done"
    teams,            \* DraftSimulator.teams: sequence of team names
    auto_teams,       \* DraftSimulator.auto_teams: set of indices into teams
    llm_drafter,      \* team_name of DraftSimulator.llm_drafter, <<>> if None
    draft_order,      \* DraftSimulator.draft_order: sequence of indices into teams
    players,          \* DraftSimulator.players: the pool, in CSV order
    drafted,          \* Player.drafted of every pool player
    drafted_by,       \* Player.drafted_by of every pool player (<<>> is None)
    roster,           \* Team.roster of every team: position -> sequence of players
    drafted_players,  \* DraftSimulator.drafted_players: sequence of names
    max_rounds,       \* DraftSimulator.max_rounds
    round_num,        \* run_draft: round_num
    pick_num,         \* run_draft: pick_num
    pick_counter,     \* run_draft: pick_counter
    all_messages,     \* CapturingUserProxyAgent.all_messages (selected names)
    attempt,          \* make_draft_selection: attempt
    matches,          \* find_player_by_name: matches, while it waits for input
    turns,            \* history: the seats put on the clock, in order
    turn,             \* history: the current / last turn
    sel,              \* history: what make_draft_selection returned in this turn
    lookup            \* history: the last find_player_by_name of this turn

\* run_drafting.py: the draft runs it starts as OS processes
VARIABLES
    run_pc,           \* position of every run: [file, at, off]
    files             \* the files of the working directory: name -> chunks

\* player_ranking_tool.load_and_combine_fantasy_data
VARIABLES
    fz_pc,            \* position: "off", "loaded", "merged", "averaged",
                      \* "sorted", "ranked"
    espn_slim,        \* the frames of lines 43-50: sets of rows
    sleeper_slim,
    yahoo_slim,
    final_df,         \* final_df of lines 63-84: a set of rows
    sorted_df         \* final_df from line 87 on: a sequence of rows

\* player_ranking_tool.standardize_name
VARIABLES
    nm_pc,            \* position: "off", "in", "std", "again"
    nm_base,          \* a name without a suffix
    nm_name,          \* the name: nm_base and the suffixes that follow it
    nm_std,           \* standardize_name(nm_name)
    nm_base_std,      \* standardize_name(nm_base)
    nm_std2           \* standardize_name(nm_std)

\* defense_ranking_tool.categorize_defenses, for one position of the analysis
VARIABLES
    tr_pc,            \* position: "off", "in", "out"
    tr_position,      \* position (the key of defense_analysis)
    num_categories,
    defense_df,       \* df: sequence of rows [Team, Defense_Rank]
    df_copy           \* df_copy: sequence of rows [Team, Defense_Rank, Category]

\* defense_ranking_tool.add_defense_matchup_to_players, for one player
VARIABLES
    sc_pc,            \* position: "off", "player", "week", "out"
    player,           \* the row of enhanced_df: [Team, Pos]
    nfl_schedule,     \* nfl_schedule: team -> sequence of opponents by week
    defense_lookup,   \* defense_lookup[position]: team -> Defense_Rank
    week,             \* the weeks of nfl_schedule[team] gone through
    total_difficulty, \* in units of 100/32
    matchup_count,
    score,            \* Schedule_Difficulty_Score in tenths, <<>> if not set
    rating            \* Schedule_Rating, "" if not set

\* team_ranking_tool.add_offense_context_to_rankings, the normalization
VARIABLES
    op_pc,            \* position: "off", "scored", "groups", "done",
    raw_df,           \* enhanced_df as the scoring loop leaves it: rows [Pos, score],
    enhanced_df,      \* enhanced_df: rows [Pos, score], score in hundredths, <<>> is NaN,
    op_positions      \* the positions of enhanced_df['Pos'].unique() still to do

\* player_ranking_tool.load_and_combine_fantasy_data, the 2023 statistics
VARIABLES
    st_pc,            \* position: "off", "load", "merge", "rank", "done",
    stats_files,      \* position -> the file: what reading and processing it gives,
    stats_dfs,        \* stats_dfs: position -> [ok, rows], ok false for None,
    final_df_with_stats,\* set of rows [Name, Pos, points, rank2023],
    st_todo           \* the positions the running loop still has to do

\* team_ranking_tool.analyze_team_offenses, for the metric YDS/G
VARIABLES
    of_pc,            \* position: "off", "load", "loaded", "pivoted", "trended", "done", "raised",
    offense_files_dict,\* year -> the file: [ok, rows], ok false when read_csv raises,
    yearly_dfs,       \* yearly_dfs: year -> rows [TEAM, yds],
    of_todo,          \* the years the loading loop still has to do,
    team_trends,      \* team_trends: Team_Abbr -> [cols, Recent, Avg, YoY, Trend],
    final_offense_df  \* Team_Abbr -> [Total_Offense_Rank, Trend], << >> before the merge

\* the name normalizers of the repository, applied to two names
VARIABLES
    ky_pc,            \* position: "off", "in",
    ky_a,             \* a player name,
    ky_b,             \* another player name,
    ky_keys           \* normalizer -> <<key of ky_a, key of ky_b>>, for those applied

simVars == <<pc, teams, auto_teams, llm_drafter, draft_order, players, drafted,
             drafted_by, roster, drafted_players, max_rounds, round_num,
             pick_num, pick_counter, all_messages, attempt, matches, turns,
             turn, sel, lookup>>
runVars == <<run_pc, files>>
fuseVars == <<fz_pc, espn_slim, sleeper_slim, yahoo_slim, final_df, sorted_df>>
nameVars == <<nm_pc, nm_base, nm_name, nm_std, nm_base_std, nm_std2>>
tierVars == <<tr_pc, tr_position, num_categories, defense_df, df_copy>>
schedVars == <<sc_pc, player, nfl_schedule, defense_lookup, week,
               total_difficulty, matchup_count, score, rating>>
oppVars == <<op_pc, raw_df, enhanced_df, op_positions>>
statVars == <<st_pc, stats_files, stats_dfs, final_df_with_stats, st_todo>>
offVars == <<of_pc, offense_files_dict, yearly_dfs, of_todo, team_trends, final_offense_df>>
keyVars == <<ky_pc, ky_a, ky_b, ky_keys>>
toolVars == <<runVars, fuseVars, nameVars, tierVars, schedVars,
             oppVars,
             statVars,
             offVars,
             keyVars>>

vars == <<simVars, toolVars>>

\* what no step of the draft simulator changes
fixedVars == <<max_rounds, toolVars>>

\* the programs that are not running
RunsIdle == run_pc = << >> /\ files = << >>
FuseIdle ==
    /\ fz_pc = "off"
    /\ espn_slim = {} /\ sleeper_slim = {} /\ yahoo_slim = {}
    /\ final_df = {} /\ sorted_df = << >>
NamesIdle ==
    /\ nm_pc = "off"
    /\ nm_base = << >> /\ nm_name = << >> /\ nm_std = << >>
    /\ nm_base_std = << >> /\ nm_std2 = << >>
TiersIdle ==
    /\ tr_pc = "off" /\ tr_position = "" /\ num_categories = 0
    /\ defense_df = << >> /\ df_copy = << >>
SchedIdle ==
    /\ sc_pc = "off" /\ player = << >> /\ nfl_schedule = << >>
    /\ defense_lookup = << >> /\ week = 0 /\ total_difficulty = 0
    /\ matchup_count = 0 /\ score = << >> /\ rating = ""
OppIdle ==
    /\ op_pc = "off" /\ raw_df = << >> /\ enhanced_df = << >>
    /\ op_positions = << >>
StatsIdle ==
    /\ st_pc = "off" /\ stats_files = << >> /\ stats_dfs = << >>
    /\ final_df_with_stats = {} /\ st_todo = << >>
OffIdle ==
    /\ of_pc = "off" /\ offense_files_dict = << >> /\ yearly_dfs = << >>
    /\ of_todo = << >> /\ team_trends = << >> /\ final_offense_df = << >>
KeysIdle ==
    /\ ky_pc = "off" /\ ky_a = << >> /\ ky_b = << >> /\ ky_keys = << >>
ToolsIdle == RunsIdle /\ FuseIdle /\ NamesIdle /\ TiersIdle /\ SchedIdle
    /\ OppIdle
    /\ StatsIdle
    /\ OffIdle
    /\ KeysIdle

-----------------------------------------------------------------------------
(* Bounds *)

MaxTeams == 2
MaxRounds == 2
MaxMsgs == 1
MaxRuns == 2
MaxChunks == 2
MaxSuffixes == 2
MaxRows == 1

-----------------------------------------------------------------------------
(* Names *)

NoName == <<>>

Allen == <<"Josh", "Allen">>
AllenJr == <<"Josh", "Allen", "Jr">>
allen == <<"josh", "allen">>
Bijan == <<"Bijan">>
Zed == <<"Zed">>
Cancel == <<"cancel">>

\* str.lower() of one word
LowerWord(w) ==
    CASE w = "Josh" -> "josh"
      [] w = "Allen" -> "allen"
      [] w = "Jr" -> "jr"
      [] w = "Bijan" -> "bijan"
      [] w = "Zed" -> "zed"
      [] OTHER -> w

\* str.lower()
Lower(s) == [i \in 1..Len(s) |-> LowerWord(s[i])]

\* Python's `a in b` for strings
IsSubstr(a, b) ==
    \E i \in 0..(Len(b) - Len(a)) : SubSeq(b, i + 1, i + Len(a)) = a

Range(s) == {s[i] : i \in 1..Len(s)}

Positions == {"QB", "RB", "WR", "TE", "K", "DST"}

Player(n, pos) == [name |-> n, position |-> pos]

\* The pools a draft is run on (the rows of the rankings CSV, in file order)
Pools ==
    { << >>,
      <<Player(Allen, "QB"), Player(Bijan, "RB"), Player(AllenJr, "K")>>,
      <<Player(Bijan, "RB"), Player(Bijan, "RB")>> }

\* the team names given to register_team, register_auto_team, add_llm_team
HumanNames == {<<"A">>}
AutoNames == {<<"A">>}
LLMNames == {<<"B">>}

\* what a conversation of the agents can select
SelNames == {Allen, Zed}

\* what a human can type as a player name
TypedNames == {allen, Bijan, Zed, Cancel}

-----------------------------------------------------------------------------
(* Pure helpers of the simulator *)

Indices == [i \in 1..Len(players) |-> i]

\* [p for p in self.players if not p.drafted]
available_players == SelectSeq(Indices, LAMBDA i : ~drafted[i])

\* all(p.drafted for p in self.players)
all_drafted == \A i \in 1..Len(players) : drafted[i]

\* faulty variant of find_matches: drafted players match too
find_matches_any(name) ==
    SelectSeq(Indices, LAMBDA i : IsSubstr(Lower(name), Lower(players[i].name)))

\* DraftSimulator.find_player_by_name, lines 95-96: the matches
find_matches(name) ==
    SelectSeq(Indices, LAMBDA i :
        IsSubstr(Lower(name), Lower(players[i].name)) /\ ~drafted[i])

\* faulty variant of get_round_draft_order: no round is reversed
get_round_draft_order_fwd(r) == draft_order

\* DraftSimulator.get_round_draft_order

get_round_draft_order(r) ==
    IF r % 2 = 0
    THEN [k \in 1..Len(draft_order) |-> draft_order[Len(draft_order) + 1 - k]]
    ELSE draft_order

\* DraftSimulator.get_team_positions: counted over the pool by drafted_by
get_team_positions(t) ==
    [pos \in Positions |->
        Cardinality({i \in 1..Len(players) :
            /\ drafted[i]
            /\ drafted_by[i] = teams[t]
            /\ players[i].position = pos})]

target_composition == [QB |-> 1, RB |-> 2, WR |-> 2, TE |-> 1]

\* DraftSimulator.make_auto_team_selection: the player chosen, 0 for None
make_auto_team_selection(t) ==
    LET roster_count == get_team_positions(t)
        position_at_limit(pos) ==
            IF pos \in DOMAIN target_composition
            THEN roster_count[pos] >= target_composition[pos]
            ELSE FALSE
        valid_players ==
            SelectSeq(available_players,
                      LAMBDA i : ~position_at_limit(players[i].position))
    IN  IF available_players = << >> THEN 0
        ELSE IF valid_players # << >> THEN valid_players[1]
        ELSE available_players[1]

\* is_llm_team / is_auto_team of run_draft, lines 289-294
is_llm_team(t) == llm_drafter # NoName /\ teams[t] = llm_drafter
is_auto_team(t) == t \in auto_teams

\* the seat of the current iteration of the two loops of run_draft
on_the_clock == get_round_draft_order(round_num)[pick_num]

EmptyRoster == [pos \in Positions |-> << >>]

-----------------------------------------------------------------------------
(* Initial state: DraftSimulator.__init__, then the pool is loaded *)

NoTurn == [team |-> 0, kind |-> "none", avail |-> FALSE, picks |-> 0, over |-> TRUE]
NoSel == [raised |-> FALSE, name |-> NoName, by |-> "none"]
NoLookup == [name |-> NoName, result |-> 0, asked |-> FALSE]

Init ==
    /\ pc = "setup"
    /\ teams = << >>
    /\ auto_teams = {}
    /\ llm_drafter = NoName
    /\ draft_order = << >>
    /\ players \in Pools
    /\ drafted = [i \in 1..Len(players) |-> FALSE]
    /\ drafted_by = [i \in 1..Len(players) |-> NoName]
    /\ roster = << >>
    /\ drafted_players = << >>
    /\ max_rounds = MaxRounds
    /\ round_num = 1
    /\ pick_num = 1
    /\ pick_counter = 0
    /\ all_messages = << >>
    /\ attempt = 0
    /\ matches = << >>
    /\ turns = << >>
    /\ turn = NoTurn
    /\ sel = NoSel
    /\ lookup = NoLookup
    /\ ToolsIdle

\* the draft simulator is not running
SimIdle ==
    /\ pc = "off" /\ teams = << >> /\ auto_teams = {} /\ llm_drafter = NoName
    /\ draft_order = << >> /\ players = << >> /\ drafted = << >>
    /\ drafted_by = << >> /\ roster = << >> /\ drafted_players = << >>
    /\ max_rounds = 0 /\ round_num = 0 /\ pick_num = 0 /\ pick_counter = 0
    /\ all_messages = << >> /\ attempt = 0 /\ matches = << >>
    /\ turns = << >> /\ turn = NoTurn /\ sel = NoSel /\ lookup = NoLookup

draftVars == <<players, drafted, drafted_by, roster, drafted_players>>
loopVars == <<round_num, pick_num, pick_counter>>
chatVars == <<all_messages, attempt>>
histVars == <<turns, turn, sel, lookup>>

-----------------------------------------------------------------------------
(* Registration and draft order: callable in any order before run_draft;   *)
(* none of them checks any state.                                          *)

register_team(n) ==
    /\ pc = "setup"
    /\ Len(teams) < MaxTeams
    /\ teams' = Append(teams, n)
    /\ roster' = Append(roster, EmptyRoster)
    /\ UNCHANGED <<pc, auto_teams, llm_drafter, draft_order, players, drafted,
                   drafted_by, drafted_players, fixedVars, loopVars, chatVars,
                   matches, histVars>>

register_auto_team(n) ==
    /\ pc = "setup"
    /\ Len(teams) < MaxTeams
    /\ teams' = Append(teams, n)
    /\ roster' = Append(roster, EmptyRoster)
    /\ auto_teams' = auto_teams \cup {Len(teams) + 1}
    /\ UNCHANGED <<pc, llm_drafter, draft_order, players, drafted,
                   drafted_by, drafted_players, fixedVars, loopVars, chatVars,
                   matches, histVars>>

add_llm_team(n) ==
    /\ pc = "setup"
    /\ Len(teams) < MaxTeams
    /\ teams' = Append(teams, n)
    /\ roster' = Append(roster, EmptyRoster)
    /\ llm_drafter' = n
    /\ all_messages' = << >>
    /\ UNCHANGED <<pc, auto_teams, draft_order, players, drafted,
                   drafted_by, drafted_players, fixedVars, loopVars, attempt,
                   matches, histVars>>

\* the orders random.shuffle can produce
Shuffles(n) ==
    {s \in [1..n -> 1..n] : \A i, j \in 1..n : i # j => s[i] # s[j]}

set_random_draft_order ==
    /\ pc = "setup"
    /\ draft_order' \in Shuffles(Len(teams))
    /\ UNCHANGED <<pc, teams, auto_teams, llm_drafter, draftVars, fixedVars,
                   loopVars, chatVars, matches, histVars>>

\* run_draft, lines 254-272: the early returns, the order, the first seat
run_draft ==
    /\ pc = "setup"
    /\ IF teams = << >> \/ players = << >>
       THEN /\ pc' = "done"
            /\ UNCHANGED draft_order
       ELSE /\ pc' = "clock"
            /\ IF draft_order = << >>
               THEN draft_order' \in Shuffles(Len(teams))
               ELSE UNCHANGED draft_order
    /\ round_num' = 1
    /\ pick_num' = 1
    /\ pick_counter' = 0
    /\ UNCHANGED <<teams, auto_teams, llm_drafter, draftVars, fixedVars,
                   chatVars, matches, histVars>>

-----------------------------------------------------------------------------
(* The pick loop of run_draft *)

\* the end of one iteration of the inner loop: next seat, next round (after
\* the check of lines 465-467), or the end of the draft
Advance ==
    IF pick_num < Len(draft_order)
    THEN /\ pc' = "clock"
         /\ pick_num' = pick_num + 1
         /\ round_num' = round_num
    ELSE IF (\A i \in 1..Len(players) : drafted'[i]) \/ round_num >= max_rounds
    THEN /\ pc' = "done"
         /\ UNCHANGED <<round_num, pick_num>>
    ELSE /\ pc' = "clock"
         /\ round_num' = round_num + 1
         /\ pick_num' = 1

\* add_player with a roster slot that holds one player per position
add_player_replace(t, p) ==
    /\ drafted' = [drafted EXCEPT ![p] = TRUE]
    /\ drafted_by' = [drafted_by EXCEPT ![p] = teams[t]]
    /\ roster' = [roster EXCEPT ![t][players[p].position] = <<p>>]
    /\ drafted_players' = Append(drafted_players, players[p].name)
    /\ UNCHANGED players

\* add_player without the append to drafted_players
add_player_unlisted(t, p) ==
    /\ drafted' = [drafted EXCEPT ![p] = TRUE]
    /\ drafted_by' = [drafted_by EXCEPT ![p] = teams[t]]
    /\ roster' = [roster EXCEPT ![t][players[p].position] = Append(@, p)]
    /\ UNCHANGED <<players, drafted_players>>

\* Team.add_player(player) and the three statements that follow every call
\* of it in run_draft (player.drafted, player.drafted_by, drafted_players)
add_player(t, p) ==
    /\ drafted' = [drafted EXCEPT ![p] = TRUE]
    /\ drafted_by' = [drafted_by EXCEPT ![p] = teams[t]]
    /\ roster' = [roster EXCEPT ![t][players[p].position] = Append(@, p)]
    /\ drafted_players' = Append(drafted_players, players[p].name)
    /\ UNCHANGED players

\* run_draft, lines 344-374: the whole turn of a rule-based auto team
AutoTurn ==
    /\ pc = "clock"
    /\ \E t \in {on_the_clock} :
       \E p \in {make_auto_team_selection(t)} :
           /\ ~is_llm_team(t)
           /\ is_auto_team(t)
           /\ pick_counter' = pick_counter + 1
           /\ turns' = Append(turns, t)
           /\ IF p # 0 THEN add_player(t, p) ELSE UNCHANGED draftVars
           /\ turn' = [team |-> t, kind |-> "auto",
                       avail |-> available_players # << >>,
                       picks |-> IF p # 0 THEN 1 ELSE 0, over |-> TRUE]
           /\ Advance
    /\ sel' = NoSel
    /\ lookup' = NoLookup
    /\ UNCHANGED <<teams, auto_teams, llm_drafter, draft_order, fixedVars,
                   chatVars, matches>>

\* run_draft, lines 296-318, and make_draft_selection up to its first
\* conversation (line 504)
LLMTurn ==
    /\ pc = "clock"
    /\ LET t == on_the_clock
       IN  /\ is_llm_team(t)
           /\ pick_counter' = pick_counter + 1
           /\ turns' = Append(turns, t)
           /\ turn' = [team |-> t, kind |-> "llm",
                       avail |-> available_players # << >>,
                       picks |-> 0, over |-> FALSE]
    /\ attempt' = 0
    /\ pc' = "chat"
    /\ sel' = NoSel
    /\ lookup' = NoLookup
    /\ UNCHANGED <<teams, auto_teams, llm_drafter, draft_order, draftVars,
                   fixedVars, round_num, pick_num, all_messages, matches>>

\* run_draft, lines 375-393: a human seat is put on the clock
HumanTurn ==
    /\ pc = "clock"
    /\ LET t == on_the_clock
       IN  /\ ~is_llm_team(t)
           /\ ~is_auto_team(t)
           /\ pick_counter' = pick_counter + 1
           /\ turns' = Append(turns, t)
           /\ turn' = [team |-> t, kind |-> "human",
                       avail |-> available_players # << >>,
                       picks |-> 0, over |-> FALSE]
    /\ pc' = "command"
    /\ sel' = NoSel
    /\ lookup' = NoLookup
    /\ UNCHANGED <<teams, auto_teams, llm_drafter, draft_order, draftVars,
                   fixedVars, round_num, pick_num, chatVars, matches>>

\* the turn ends without a pick
NoPick ==
    /\ turn' = [turn EXCEPT !.over = TRUE]
    /\ UNCHANGED draftVars
    /\ Advance

\* the turn ends with player p drafted to the seat on the clock
Pick(p) ==
    /\ add_player(turn.team, p)
    /\ turn' = [turn EXCEPT !.picks = @ + 1, !.over = TRUE]
    /\ Advance

\* find_player_by_name(name) as called in a turn, and what the caller does
\* with its result: no match, one match, or the prompt of lines 105-117
Resolve(name) ==
    \E m \in {find_matches(name)} :
        /\ lookup' = [name |-> name,
                      result |-> IF Len(m) = 1 THEN m[1] ELSE 0,
                      asked |-> Len(m) > 1]
        /\ IF Len(m) = 0
           THEN /\ matches' = << >>
                /\ IF turn.kind = "human"
                   THEN /\ pc' = "retry"
                        /\ UNCHANGED <<draftVars, turn, round_num, pick_num>>
                   ELSE NoPick
           ELSE IF Len(m) = 1
           THEN /\ matches' = << >>
                /\ Pick(m[1])
           ELSE /\ matches' = m
                /\ pc' = "choose"
                /\ UNCHANGED <<draftVars, turn, round_num, pick_num>>

-----------------------------------------------------------------------------
(* AutoGenDrafter *)

max_attempts == 3

\* AutoGenDrafter.available_players (get_available_players, and lines 450-454
\* of make_draft_selection); AutoGenDrafter.drafted_players is the simulator's
\* own list (set_drafted_players stores the reference)
drafter_available ==
    SelectSeq(Indices, LAMBDA i :
        ~drafted[i] /\ players[i].name \notin Range(drafted_players))

\* extract_player_name_from_output, lines 404-417, on the captured messages:
\* the lines before the last TERMINATE, last line first
RECURSIVE before_terminate(_, _)
before_terminate(msgs, k) ==
    IF k = 0 THEN NoName
    ELSE LET named == SelectSeq(drafter_available,
                         LAMBDA i : IsSubstr(players[i].name, msgs[k]))
         IN  IF named # << >> THEN players[named[1]].name
             ELSE before_terminate(msgs, k - 1)

\* extract_player_name_from_output on the text of the captured messages: the
\* first "I select ..." of the text (lines 392-402), else the lines before the
\* last TERMINATE; the patterns of lines 420-437 find the same first selection
\* again, which is a drafted name by then
extract_player_name_from_output(msgs) ==
    IF msgs = << >> THEN NoName
    ELSE LET potential_name == msgs[1]
             named == SelectSeq(drafter_available, LAMBDA i :
                          IsSubstr(Lower(players[i].name), Lower(potential_name)))
         IN  IF named # << >> THEN players[named[1]].name
             ELSE IF potential_name \notin Range(drafted_players)
             THEN potential_name
             ELSE before_terminate(msgs, Len(msgs))

\* make_draft_selection, lines 545-585: the fallback selection
fallback_selection(t, current_round) ==
    LET needed_positions ==
            (IF roster[t]["QB"] = << >> THEN {"QB"} ELSE {})
            \cup (IF Len(roster[t]["RB"]) < 2 THEN {"RB"} ELSE {})
            \cup (IF Len(roster[t]["WR"]) < 2 THEN {"WR"} ELSE {})
            \cup (IF roster[t]["TE"] = << >> THEN {"TE"} ELSE {})
        priority_positions == {"RB", "WR"} \cap needed_positions
        wanted ==
            IF current_round <= 3 /\ priority_positions # {}
            THEN priority_positions
            ELSE needed_positions
        by_position ==
            SelectSeq(drafter_available, LAMBDA i : players[i].position \in wanted)
        position_players ==
            IF by_position = << >> THEN drafter_available ELSE by_position
    IN  IF position_players = << >> THEN NoName
        ELSE players[position_players[1]].name

\* One user_proxy.initiate_chat of make_draft_selection (lines 502-523): the
\* conversation leaves msgs in all_messages and raises or not.  After the
\* last conversation the rest of make_draft_selection (lines 525-587) and of
\* the turn (run_draft, lines 320-342) follows.
initiate_chat(msgs, raised) ==
    /\ pc = "chat"
    /\ Len(all_messages) + Len(msgs) <= MaxMsgs
    /\ all_messages' = all_messages \o msgs
    /\ IF raised /\ attempt < max_attempts - 1
       THEN /\ attempt' = attempt + 1
            /\ UNCHANGED <<pc, draftVars, round_num, pick_num, matches, turn,
                           sel, lookup>>
       ELSE \E extracted \in {extract_player_name_from_output(all_messages')} :
            \E player_name \in {IF extracted # NoName THEN extracted
                                ELSE fallback_selection(turn.team, round_num)} :
                /\ attempt' = 0
                /\ sel' = [raised |-> raised, name |-> player_name,
                           by |-> IF extracted # NoName THEN "extract"
                                  ELSE "fallback"]
                /\ IF player_name # NoName
                   THEN Resolve(player_name)
                   ELSE /\ NoPick
                        /\ UNCHANGED <<matches, lookup>>
    /\ UNCHANGED <<teams, auto_teams, llm_drafter, draft_order, fixedVars,
                   pick_counter, turns>>

-----------------------------------------------------------------------------
(* input() *)

\* find_player_by_name, lines 110-117: the answer to "Select player number"
input_choice(choice) ==
    /\ pc = "choose"
    /\ IF 1 <= choice /\ choice <= Len(matches)
       THEN /\ lookup' = [lookup EXCEPT !.result = matches[choice]]
            /\ matches' = << >>
            /\ Pick(matches[choice])
       ELSE UNCHANGED <<pc, draftVars, round_num, pick_num, matches, turn,
                        lookup>>
    /\ UNCHANGED <<teams, auto_teams, llm_drafter, draft_order, fixedVars,
                   pick_counter, chatVars, turns, sel>>

Commands == {"1", "2", "4", "9"}

\* run_draft, lines 393-462: the answer to "Enter command (1-7)"; every
\* command but 4 displays something and prompts again
input_command(command) ==
    /\ pc = "command"
    /\ pc' = IF command = "4" THEN "name" ELSE "command"
    /\ UNCHANGED <<teams, auto_teams, llm_drafter, draft_order, draftVars,
                   fixedVars, loopVars, chatVars, matches, histVars>>

\* run_draft, lines 407-431: the answer to "Enter player name to draft"
input_player_name(player_name) ==
    /\ pc = "name"
    /\ IF Lower(player_name) = Cancel
       THEN /\ NoPick
            /\ UNCHANGED <<matches, lookup>>
       ELSE Resolve(player_name)
    /\ UNCHANGED <<teams, auto_teams, llm_drafter, draft_order, fixedVars,
                   pick_counter, chatVars, turns, sel>>

\* run_draft, lines 434-438: the answer to "Player not found. Try again?"
input_retry(retry) ==
    /\ pc = "retry"
    /\ IF retry = "y"
       THEN /\ pc' = "name"
            /\ UNCHANGED <<draftVars, round_num, pick_num, turn>>
       ELSE NoPick
    /\ UNCHANGED <<teams, auto_teams, llm_drafter, draft_order, fixedVars,
                   pick_counter, chatVars, matches, turns, sel, lookup>>

-----------------------------------------------------------------------------

Next ==
    \/ \E n \in HumanNames : register_team(n)
    \/ \E n \in AutoNames : register_auto_team(n)
    \/ \E n \in LLMNames : add_llm_team(n)
    \/ set_random_draft_order
    \/ run_draft
    \/ AutoTurn
    \/ LLMTurn
    \/ HumanTurn
    \/ \E n \in SelNames, raised \in BOOLEAN :
           initiate_chat(<<n>>, raised) \/ initiate_chat(<< >>, raised)
    \/ \E choice \in 0..3 : input_choice(choice)
    \/ \E command \in Commands : input_command(command)
    \/ \E player_name \in TypedNames : input_player_name(player_name)
    \/ \E retry \in {"y", "n"} : input_retry(retry)

Spec == Init /\ [][Next]_vars

-----------------------------------------------------------------------------
(* Properties *)

InProgress == pc \in {"clock", "chat", "choose", "command", "name", "retry"}

\* C1: in every round the seats take their turns in draft_order when the
\* round is odd and in the reverse of draft_order when it is even: the i-th
\* turn of the draft is pick k of round r with i = (r - 1) * n + k, and it
\* belongs to draft_order[k] (r odd) or draft_order[n + 1 - k] (r even).
C1_SnakeOrder ==
    \A i \in 1..Len(turns) :
        LET n == Len(draft_order)
            r == ((i - 1) \div n) + 1
            k == ((i - 1) % n) + 1
        IN  turns[i] = IF r % 2 = 1 THEN draft_order[k]
                       ELSE draft_order[n + 1 - k]

\* a second round of at least two seats has been played to its end
C1_Witness ==
    /\ Len(draft_order) >= 2
    /\ Len(turns) = 2 * Len(draft_order)
    /\ turns[Len(draft_order) + 1] = draft_order[Len(draft_order)]
    /\ turns[Len(turns)] = draft_order[1]

\* C2: drafted_players never contains the same name twice, whatever the pool
\* (also when two rows of the pool carry the same name).
C2_NoNameDraftedTwice ==
    \A i, j \in 1..Len(drafted_players) :
        i # j => drafted_players[i] # drafted_players[j]

\* C3: every turn of an automated seat (LLM or rule-based) that starts while
\* an undrafted player exists ends with exactly one player drafted to the
\* seat's team.
C3_AutomatedTurnDraftsOne ==
    (turn.over /\ turn.kind \in {"llm", "auto"} /\ turn.avail)
        => turn.picks = 1

\* C4: every player of a roster (added by Team.add_player) is drafted, is
\* drafted by the team of that roster and stands under its own position; no
\* player is in the rosters of two teams, nor twice in one roster.
C4_RosterMutation ==
    \A t1 \in 1..Len(teams), pos1 \in Positions :
        \A k1 \in 1..Len(roster[t1][pos1]) :
            /\ drafted[roster[t1][pos1][k1]]
            /\ drafted_by[roster[t1][pos1][k1]] = teams[t1]
            /\ players[roster[t1][pos1][k1]].position = pos1
            /\ \A t2 \in 1..Len(teams), pos2 \in Positions :
                   \A k2 \in 1..Len(roster[t2][pos2]) :
                       <<t1, pos1, k1>> # <<t2, pos2, k2>>
                           => roster[t1][pos1][k1] # roster[t2][pos2][k2]

\* two different teams hold a player each
C4_Witness ==
    \E t1, t2 \in 1..Len(teams) :
        /\ t1 # t2
        /\ \E pos \in Positions : roster[t1][pos] # << >>
        /\ \E pos \in Positions : roster[t2][pos] # << >>

\* C5: from the moment every pool player is drafted no further seat is put
\* on the clock: every turn starts while an undrafted player exists.
C5_NoTurnOnDraftedPool ==
    turn.team # 0 => turn.avail

\* C6: make_draft_selection runs at most 3 conversations, and when all 3
\* raise, the name it returns is the one the fallback selection chooses.
C6_AllRaisedReturnsFallback ==
    [][/\ attempt' < max_attempts
       /\ (pc = "chat" /\ pc' # "chat" /\ sel'.raised)
              => sel'.name = fallback_selection(turn.team, round_num)]_vars

\* the fallback / rule-based policy as C7 states it: the first available
\* player whose position is below its target count (QB 1, RB 2, WR 2, TE 1,
\* and one FLEX slot for a 3rd RB or WR), else the first available player
claimed_policy(t) ==
    LET count(pos) == Len(roster[t][pos])
        flex_open == count("RB") <= 2 /\ count("WR") <= 2
        below(pos) ==
            CASE pos = "QB" -> count("QB") < 1
              [] pos = "TE" -> count("TE") < 1
              [] pos \in {"RB", "WR"} ->
                     count(pos) < 2 \/ (count(pos) = 2 /\ flex_open)
              [] OTHER -> FALSE
        needed == SelectSeq(available_players,
                            LAMBDA i : below(players[i].position))
    IN  IF needed # << >> THEN needed[1]
        ELSE IF available_players # << >> THEN available_players[1]
        ELSE 0

\* C7: whenever the rule-based policy of an auto team or the fallback of the
\* LLM seat chooses, it chooses the player of claimed_policy.
C7_FallbackPolicy ==
    [][/\ (pc = "clock" /\ turn'.kind = "auto")
              => \A p \in 1..Len(players) :
                     (drafted'[p] /\ ~drafted[p]) => p = claimed_policy(turn'.team)
       /\ (pc = "chat" /\ pc' # "chat" /\ sel'.by = "fallback"
              /\ claimed_policy(turn.team) # 0)
              => sel'.name = players[claimed_policy(turn.team)].name]_vars

\* the resolution of a name as C8 states it: the available player whose name
\* is the given one (case-insensitively), else the first available player
\* the name is a substring of
claimed_resolve(name) ==
    LET exact == SelectSeq(available_players,
                           LAMBDA i : Lower(players[i].name) = Lower(name))
        partial == SelectSeq(available_players,
                       LAMBDA i : IsSubstr(Lower(name), Lower(players[i].name)))
    IN  IF exact # << >> THEN exact[1]
        ELSE IF partial # << >> THEN partial[1]
        ELSE 0

\* C8: find_player_by_name returns the player of claimed_resolve, and it
\* returns it without asking for input.
C8_ResolveFirstMatch ==
    [][(pc \in {"chat", "name"} /\ lookup' # lookup)
          => /\ ~lookup'.asked
             /\ lookup'.result = claimed_resolve(lookup'.name)]_vars

\* C9: with no human seat registered no turn waits for input, and the draft
\* takes at most max_rounds x |teams| turns.
C9_NoAutomatedTurnBlocks ==
    (\A t \in 1..Len(teams) : is_llm_team(t) \/ is_auto_team(t))
        => /\ pc # "choose"
           /\ pick_counter <= max_rounds * Len(teams)

\* C10: while run_draft is in progress every registered team appears exactly
\* once in draft_order.
C10_EveryTeamInDraftOrder ==
    InProgress =>
        \A t \in 1..Len(teams) :
            Cardinality({k \in 1..Len(draft_order) : draft_order[k] = t}) = 1

\* s is a prefix of t
IsPrefix(s, t) ==
    /\ Len(s) <= Len(t)
    /\ \A i \in 1..Len(s) : s[i] = t[i]

\* C11: in every step every roster list of every team is a prefix of the
\* same list after the step (nothing removed, moved or reordered), the
\* drafted_players list is a prefix of the next one, and a drafted flag that
\* is true stays true.
C11_RostersOnlyGrow ==
    [][/\ Len(roster) <= Len(roster')
       /\ \A t \in 1..Len(roster), pos \in Positions :
              IsPrefix(roster[t][pos], roster'[t][pos])
       /\ IsPrefix(drafted_players, drafted_players')
       /\ \A i \in 1..Len(players) : drafted[i] => drafted'[i]]_vars

\* a team holds two players at one position: its list has grown twice
C11_Witness ==
    \E t \in 1..Len(teams), pos \in Positions : Len(roster[t][pos]) >= 2

\* C12: a human seat that gave an unknown command, or a name that matches no
\* available player, is prompted again: its turn is not over after its next
\* input unless that input drafts a player.
C12_InvalidInputReprompts ==
    [][(pc \in {"command", "retry"} /\ turn.kind = "human")
          => /\ pc' \in {"command", "name", "retry", "choose"}
             /\ turn'.team = turn.team
             /\ ~turn'.over]_vars

-----------------------------------------------------------------------------
(* run_drafting.py: llm_draft_auto_drafting.py started several times as an  *)
(* OS process, all in the working directory of run_drafting.py.  Every run  *)
(* opens the same three relative paths with mode "w" and writes through a   *)
(* buffered file object: the operating system sees an open that truncates,  *)
(* then one write per flushed buffer at the offset of this run's own file   *)
(* descriptor, then the close.                                              *)

Runs == 1..MaxRuns

\* the files a run writes, in the order it writes them
RunFiles == <<"final_rankings_with_schedule.json", "conversation_log.txt",
              "fantasy_rankings.json">>

\* the bytes a write past the end of a truncated file leaves before it
Hole == [run |-> 0, k |-> 0]

\* write(2) of one chunk at offset off of a file that holds content
pwrite(content, off, chunk) ==
    IF off < Len(content)
    THEN [content EXCEPT ![off + 1] = chunk]
    ELSE content \o [i \in 1..(off - Len(content)) |-> Hole] \o <<chunk>>

notRuns == <<simVars, fuseVars, nameVars, tierVars, schedVars,
    oppVars,
    statVars,
    offVars,
    keyVars>>

InitRuns ==
    /\ SimIdle /\ FuseIdle /\ NamesIdle /\ TiersIdle /\ SchedIdle
    /\ OppIdle
    /\ StatsIdle
    /\ OffIdle
    /\ KeysIdle
    /\ run_pc = [r \in Runs |-> [file |-> 1, at |-> "closed", off |-> 0]]
    /\ files = [f \in 1..Len(RunFiles) |-> << >>]

\* open(path, "w")
open_w(r) ==
    /\ run_pc[r].at = "closed"
    /\ run_pc[r].file <= Len(RunFiles)
    /\ files' = [files EXCEPT ![run_pc[r].file] = << >>]
    /\ run_pc' = [run_pc EXCEPT ![r].at = "open", ![r].off = 0]
    /\ UNCHANGED notRuns

\* one buffer of f.write / json.dump reaches the file
write(r) ==
    /\ run_pc[r].at = "open"
    /\ run_pc[r].off < MaxChunks
    /\ files' = [files EXCEPT ![run_pc[r].file] =
                     pwrite(@, run_pc[r].off,
                            [run |-> r, k |-> run_pc[r].off + 1])]
    /\ run_pc' = [run_pc EXCEPT ![r].off = @ + 1]
    /\ UNCHANGED notRuns

\* the end of the with block
close(r) ==
    /\ run_pc[r].at = "open"
    /\ run_pc[r].off = MaxChunks
    /\ run_pc' = [run_pc EXCEPT ![r] = [file |-> @.file + 1, at |-> "closed",
                                        off |-> 0]]
    /\ UNCHANGED <<files, notRuns>>

\* make_draft_selection always extracted a name: no conversation log
no_log(r) ==
    /\ run_pc[r].at = "closed"
    /\ run_pc[r].file <= Len(RunFiles)
    /\ RunFiles[run_pc[r].file] = "conversation_log.txt"
    /\ run_pc' = [run_pc EXCEPT ![r].file = @ + 1]
    /\ UNCHANGED <<files, notRuns>>

NextRuns ==
    \/ \E r \in Runs : open_w(r)
    \/ \E r \in Runs : write(r)
    \/ \E r \in Runs : close(r)
    \/ \E r \in Runs : no_log(r)

SpecRuns == InitRuns /\ [][NextRuns]_vars

\* C13: no step of one run changes what another run, still executing, has
\* written: every chunk a run has put into a file stays where it is, as it
\* is, in every step that is not a step of that run.
C13_RunsShareNoFile ==
    [][\A r \in Runs :
          (run_pc'[r] = run_pc[r] /\ run_pc[r].file <= Len(RunFiles))
              => \A f \in 1..Len(RunFiles) : \A i \in 1..Len(files[f]) :
                     files[f][i].run = r
                         => i <= Len(files'[f]) /\ files'[f][i] = files[f][i]]_vars

-----------------------------------------------------------------------------
(* player_ranking_tool.standardize_name.  A string is the sequence of its   *)
(* characters.                                                              *)

\* str.lower() of one character
lower_char(c) ==
    CASE c = "A" -> "a"
      [] c = "B" -> "b"
      [] c = "I" -> "i"
      [] c = "J" -> "j"
      [] c = "O" -> "o"
      [] c = "S" -> "s"
      [] c = "V" -> "v"
      [] OTHER -> c

\* a str.lower that leaves the string as it is
lower_none(str) == str

\* str.lower()
lower(str) == [i \in 1..Len(str) |-> lower_char(str[i])]

\* \s
IsSpace(c) == c = " "

\* str.strip()
RECURSIVE strip(_)
strip(str) ==
    IF str = << >> THEN str
    ELSE IF IsSpace(Head(str)) THEN strip(Tail(str))
    ELSE IF IsSpace(str[Len(str)]) THEN strip(SubSeq(str, 1, Len(str) - 1))
    ELSE str

\* the alternatives of the pattern of line 224: Jr\.|Sr\.|II|III|IV
re_suffixes ==
    { <<"J", "r", ".">>, <<"S", "r", ".">>, <<"I", "I">>, <<"I", "I", "I">>,
      <<"I", "V">> }

\* str ends with suf, and a \s stands before it
EndsWithSuffix(str, suf) ==
    /\ Len(str) > Len(suf)
    /\ SubSeq(str, Len(str) - Len(suf) + 1, Len(str)) = suf
    /\ IsSpace(str[Len(str) - Len(suf)])

\* str without the \s that end it
RECURSIVE drop_spaces(_)
drop_spaces(str) ==
    IF str # << >> /\ IsSpace(str[Len(str)])
    THEN drop_spaces(SubSeq(str, 1, Len(str) - 1))
    ELSE str

\* re.sub(r'\s+(Jr\.|Sr\.|II|III|IV)$', '', name): the match is the suffix
\* that ends the name together with all the white space before it
re_sub_suffix(name) ==
    LET found == {suf \in re_suffixes : EndsWithSuffix(name, suf)}
    IN  IF found = {} THEN name
        ELSE LET suf == CHOOSE x \in found : TRUE
             IN  drop_spaces(SubSeq(name, 1, Len(name) - Len(suf)))

\* name.replace('.', '').replace("'", '')
remove_punctuation(name) ==
    SelectSeq(name, LAMBDA c : c # "." /\ c # "'")

\* standardize_name, lines 222-228
standardize_name(name) ==
    strip(lower(remove_punctuation(re_sub_suffix(name))))

\* names without a suffix: a plain one, one with periods and an apostrophe,
\* one with white space around it, one of two words
Bases ==
    { <<"O", "b">>, <<"A", ".", "J", ".", "O", "'", "b">>,
      <<" ", "O", "b", " ">>, <<"A", " ", "O", "b">> }

\* the suffix vocabulary, each with and without a period after it
Vocabulary ==
    { <<"J", "r", ".">>, <<"J", "r">>, <<"S", "r", ".">>, <<"S", "r">>,
      <<"I", "I">>, <<"I", "I", ".">>, <<"I", "I", "I">>,
      <<"I", "I", "I", ".">>, <<"I", "V">>, <<"I", "V", ".">>,
      <<"V">>, <<"V", ".">> }

\* base and the suffixes sufs after it, each after one blank
RECURSIVE with_suffixes(_, _)
with_suffixes(base, sufs) ==
    IF sufs = << >> THEN base
    ELSE with_suffixes(base \o <<" ">> \o Head(sufs), Tail(sufs))

SuffixLists == UNION {[1..n -> Vocabulary] : n \in 0..MaxSuffixes}

notNames == <<simVars, runVars, fuseVars, tierVars, schedVars,
    oppVars,
    statVars,
    offVars,
    keyVars>>

InitNames ==
    /\ SimIdle /\ RunsIdle /\ FuseIdle /\ TiersIdle /\ SchedIdle
    /\ OppIdle
    /\ StatsIdle
    /\ OffIdle
    /\ KeysIdle
    /\ nm_pc = "in"
    /\ nm_base \in Bases
    /\ \E sufs \in SuffixLists : nm_name = with_suffixes(nm_base, sufs)
    /\ nm_std = << >> /\ nm_base_std = << >> /\ nm_std2 = << >>

\* line 231: the column of names .apply(standardize_name)
apply_standardize_name ==
    /\ nm_pc = "in"
    /\ nm_pc' = "std"
    /\ nm_std' = standardize_name(nm_name)
    /\ nm_base_std' = standardize_name(nm_base)
    /\ UNCHANGED <<nm_base, nm_name, nm_std2, notNames>>

\* standardize_name applied to a name it has returned
apply_again ==
    /\ nm_pc = "std"
    /\ nm_pc' = "again"
    /\ nm_std2' = standardize_name(nm_std)
    /\ UNCHANGED <<nm_base, nm_name, nm_std, nm_base_std, notNames>>

NextNames == apply_standardize_name \/ apply_again

SpecNames == InitNames /\ [][NextNames]_vars

\* C19: standardize_name(standardize_name(x)) = standardize_name(x) for
\* every name x.
C19_Idempotent ==
    nm_pc = "again" => nm_std2 = nm_std

\* a name whose suffix standardize_name has removed has gone through twice
C19_Witness ==
    /\ nm_pc = "again"
    /\ nm_name # nm_base
    /\ nm_std = nm_base_std

\* C20: for every base name b and every suffix s of the vocabulary (Jr., Sr.,
\* II, III, IV, V, each with or without a period after it)
\* standardize_name(b + ' ' + s) = standardize_name(b).
C20_StripsVocabulary ==
    (nm_pc = "std"
        /\ \E s \in Vocabulary : nm_name = with_suffixes(nm_base, <<s>>))
    => nm_std = nm_base_std

-----------------------------------------------------------------------------
(* player_ranking_tool.load_and_combine_fantasy_data, lines 42-90.  A frame *)
(* is the set of its rows until sort_values orders it; a rank is <<r>>, and *)
(* << >> is NaN; Avg_Rank is in tenths.                                     *)

OB == <<"O", "b">>
OBJ == <<"O", "b", " ", "J", "r", ".">>
AOB == <<"A", " ", "O", "b">>

\* the rows a ranking CSV can hold: Name, Team, Pos and the site's rank
SourceRows(ranks) ==
    [Name : {OB, OBJ, AOB}, Team : {"NYG"}, Pos : {"WR"}, rank : ranks]

\* the frames of at most MaxRows rows
Frames(rows) == {f \in SUBSET rows : Cardinality(f) <= MaxRows}

key(row) == <<row.Name, row.Team, row.Pos>>

\* pd.merge(..., on=['Name', 'Team', 'Pos'], how='outer') twice, lines 54-69
merge_outer ==
    LET FusedRow(k, e, s, y) ==
            [Name |-> k[1], Team |-> k[2], Pos |-> k[3], ESPN_Rank |-> e,
             Sleeper_Rank |-> s, Yahoo_Rank |-> y, Avg_Rank |-> << >>]
        keys == {key(r) : r \in espn_slim \cup sleeper_slim \cup yahoo_slim}
        \* the ranks a frame gives to a key: those of its rows with the key,
        \* NaN when it has none
        side(frame, k) ==
            IF \E r \in frame : key(r) = k
            THEN {r.rank : r \in {x \in frame : key(x) = k}}
            ELSE {<< >>}
    IN  UNION {{FusedRow(k, e, s, y) :
                   e \in side(espn_slim, k), s \in side(sleeper_slim, k),
                   y \in side(yahoo_slim, k)} : k \in keys}

\* round-half-even of a / b
RoundDiv(a, b) ==
    LET q == a \div b
        r == a % b
    IN  IF 2 * r < b THEN q
        ELSE IF 2 * r > b THEN q + 1
        ELSE IF q % 2 = 0 THEN q ELSE q + 1

RECURSIVE Sum(_)
Sum(seq) == IF seq = << >> THEN 0 ELSE Head(seq) + Sum(Tail(seq))

\* a mean that divides by the number of sites
mean_of_three(ranks) ==
    IF ranks = << >> THEN << >>
    ELSE <<RoundDiv(10 * Sum(ranks), 3)>>

\* .mean(axis=1, skipna=True).round(1) of the non-NaN ranks of a row
mean_round1(ranks) ==
    IF ranks = << >> THEN << >>
    ELSE <<RoundDiv(10 * Sum(ranks), Len(ranks))>>

\* any row may come first
any_rows(rows) == rows

\* the rows sort_values('Avg_Rank') may put first: a smallest Avg_Rank, NaN
\* after every number
first_rows(rows) ==
    {r \in rows :
        \A x \in rows :
            \/ r.Avg_Rank = << >> /\ x.Avg_Rank = << >>
            \/ r.Avg_Rank # << >>
                   /\ (x.Avg_Rank = << >> \/ r.Avg_Rank[1] <= x.Avg_Rank[1])}

\* the orders sort_values('Avg_Rank') can return (quicksort: rows of equal
\* Avg_Rank in any order)
RECURSIVE sort_values(_)
sort_values(rows) ==
    IF rows = {} THEN {<< >>}
    ELSE UNION {{<<r>> \o rest : rest \in sort_values(rows \ {r})} :
                   r \in first_rows(rows)}

notFuse == <<simVars, runVars, nameVars, tierVars, schedVars,
    oppVars,
    statVars,
    offVars,
    keyVars>>

InitFuse ==
    /\ SimIdle /\ RunsIdle /\ NamesIdle /\ TiersIdle /\ SchedIdle
    /\ OppIdle
    /\ StatsIdle
    /\ OffIdle
    /\ KeysIdle
    /\ fz_pc = "loaded"
    /\ espn_slim \in Frames(SourceRows({<<5>>, << >>}))
    /\ sleeper_slim \in Frames(SourceRows({<<7>>, << >>}))
    /\ yahoo_slim \in Frames(SourceRows({<<5>>, <<7>>, << >>}))
    /\ final_df = {}
    /\ sorted_df = << >>

\* lines 54-81
merge ==
    /\ fz_pc = "loaded"
    /\ fz_pc' = "merged"
    /\ final_df' = merge_outer
    /\ UNCHANGED <<espn_slim, sleeper_slim, yahoo_slim, sorted_df, notFuse>>

\* line 84
avg_rank ==
    /\ fz_pc = "merged"
    /\ fz_pc' = "averaged"
    /\ final_df' =
           {[r EXCEPT !.Avg_Rank =
                 mean_round1(r.ESPN_Rank \o r.Sleeper_Rank \o r.Yahoo_Rank)] :
              r \in final_df}
    /\ UNCHANGED <<espn_slim, sleeper_slim, yahoo_slim, sorted_df, notFuse>>

\* line 87
sort_by_avg_rank ==
    /\ fz_pc = "averaged"
    /\ fz_pc' = "sorted"
    /\ sorted_df' \in sort_values(final_df)
    /\ UNCHANGED <<espn_slim, sleeper_slim, yahoo_slim, final_df, notFuse>>

\* line 90
insert_overall_rank ==
    /\ fz_pc = "sorted"
    /\ fz_pc' = "ranked"
    /\ sorted_df' =
           [i \in 1..Len(sorted_df) |->
               [Overall_Rank |-> i, Name |-> sorted_df[i].Name,
                Team |-> sorted_df[i].Team, Pos |-> sorted_df[i].Pos,
                ESPN_Rank |-> sorted_df[i].ESPN_Rank,
                Sleeper_Rank |-> sorted_df[i].Sleeper_Rank,
                Yahoo_Rank |-> sorted_df[i].Yahoo_Rank,
                Avg_Rank |-> sorted_df[i].Avg_Rank]]
    /\ UNCHANGED <<espn_slim, sleeper_slim, yahoo_slim, final_df, notFuse>>

NextFuse == merge \/ avg_rank \/ sort_by_avg_rank \/ insert_overall_rank

SpecFuse == InitFuse /\ [][NextFuse]_vars

\* C14: Overall_Rank is a permutation of 1..N over the N fused rows, it is
\* non-decreasing in Avg_Rank, and every row without an Avg_Rank is ranked
\* after every row with one.
C14_OverallRankPermutation ==
    fz_pc = "ranked" =>
        /\ {sorted_df[i].Overall_Rank : i \in 1..Len(sorted_df)}
               = 1..Cardinality(final_df)
        /\ Len(sorted_df) = Cardinality(final_df)
        /\ \A i, j \in 1..Len(sorted_df) :
               sorted_df[i].Overall_Rank < sorted_df[j].Overall_Rank =>
                   /\ sorted_df[i].Avg_Rank = << >>
                          => sorted_df[j].Avg_Rank = << >>
                   /\ (sorted_df[i].Avg_Rank # << >>
                           /\ sorted_df[j].Avg_Rank # << >>)
                          => sorted_df[i].Avg_Rank[1] <= sorted_df[j].Avg_Rank[1]

\* three rows are ranked, one without an Avg_Rank and two with different ones
C14_Witness ==
    /\ fz_pc = "ranked"
    /\ Len(sorted_df) = 3
    /\ sorted_df[3].Avg_Rank = << >>
    /\ sorted_df[1].Avg_Rank # << >> /\ sorted_df[2].Avg_Rank # << >>
    /\ sorted_df[1].Avg_Rank # sorted_df[2].Avg_Rank

\* the key C15 joins on: (normalized name, team, position)
normalized_key(row) == <<standardize_name(row.Name), row.Team, row.Pos>>

\* C15: a player (a normalized name, team and position) that every source
\* lists at most once has exactly one fused row, and that row carries the
\* rank of every source that lists the player and NaN for the others.
C15_OneRowPerPlayer ==
    fz_pc = "merged" =>
        \A k \in {normalized_key(r) :
                     r \in espn_slim \cup sleeper_slim \cup yahoo_slim} :
            LET listed(frame) == {r \in frame : normalized_key(r) = k}
                rank_of(frame) ==
                    IF listed(frame) = {} THEN << >>
                    ELSE (CHOOSE r \in listed(frame) : TRUE).rank
                fused == {r \in final_df : normalized_key(r) = k}
            IN  (/\ Cardinality(listed(espn_slim)) <= 1
                 /\ Cardinality(listed(sleeper_slim)) <= 1
                 /\ Cardinality(listed(yahoo_slim)) <= 1)
                => /\ Cardinality(fused) = 1
                   /\ \A r \in fused :
                          /\ r.ESPN_Rank = rank_of(espn_slim)
                          /\ r.Sleeper_Rank = rank_of(sleeper_slim)
                          /\ r.Yahoo_Rank = rank_of(yahoo_slim)

\* C18: Avg_Rank is NaN exactly when the three ranks of the row are NaN, and
\* otherwise it is the tenth nearest to the mean of the ranks that are not
\* NaN.
C18_AvgRankIsMean ==
    fz_pc = "averaged" =>
        \A r \in final_df :
            LET ranks == r.ESPN_Rank \o r.Sleeper_Rank \o r.Yahoo_Rank
                diff == 10 * Sum(ranks) - Len(ranks) * r.Avg_Rank[1]
            IN  /\ r.Avg_Rank = << >> <=> ranks = << >>
                /\ ranks # << >> =>
                       /\ 2 * diff <= Len(ranks)
                       /\ 2 * diff >= 0 - Len(ranks)

\* ranks {5, NaN, 7} are averaged to 6.0, and a row of one rank keeps it
C18_Witness ==
    /\ fz_pc = "averaged"
    /\ \E r \in final_df :
           /\ r.ESPN_Rank = <<5>> /\ r.Sleeper_Rank = << >>
           /\ r.Yahoo_Rank = <<7>> /\ r.Avg_Rank = <<60>>
    /\ \E r \in final_df :
           /\ r.ESPN_Rank = << >> /\ r.Sleeper_Rank = <<7>>
           /\ r.Yahoo_Rank = << >> /\ r.Avg_Rank = <<70>>

-----------------------------------------------------------------------------
\* tools/defense_ranking_tool.py: categorize_defenses on one position's table

\* the largest table and the largest num_categories explored
MaxDefTeams == 6
MaxCategories == 5

DefPositions == {"QB", "DEF"}

\* the Rank columns of a table of n teams: any ranks, ties included, written
\* densely (the ranks used are 1..m) in the order of the table
RankColumns(n) ==
    {f \in [1..n -> 1..n] :
        /\ n > 0 => f[1] = 1
        /\ \A i \in 1..(n - 1) : f[i + 1] \in {f[i], f[i] + 1}}

\* the tables analyze_defense_vs_position hands over: one row per team, sorted
\* by Defense_Rank (descending for DEF)
DefenseTables(position) ==
    UNION {{[i \in 1..n |->
                [Team |-> i,
                 Defense_Rank |-> IF position = "DEF" THEN f[n + 1 - i]
                                  ELSE f[i]]] :
               f \in RankColumns(n)} : n \in 0..MaxDefTeams}

\* the category labels from best to worst
categories(k) ==
    IF k = 5 THEN <<<<"Shutdown">>, <<"Strong">>, <<"Average">>, <<"Weak">>,
                    <<"Exploitable">>>>
    ELSE IF k = 3 THEN <<<<"Strong">>, <<"Average">>, <<"Weak">>>>
    ELSE [i \in 1..k |-> <<"Tier", i>>]

\* sizes that give the remainder to the last categories
category_sizes_last(n_teams, k) ==
    [i \in 1..k |-> (n_teams \div k) + (IF i > k - (n_teams % k) THEN 1 ELSE 0)]

\* teams_per_category each, and one more for the first remainder categories
category_sizes(n_teams, k) ==
    [i \in 1..k |-> (n_teams \div k) + (IF i <= n_teams % k THEN 1 ELSE 0)]

\* row a is ahead of row b in the sort of the position (or ties with it)
ahead(position, a, b) ==
    IF position = "DEF" THEN a.Defense_Rank >= b.Defense_Rank
    ELSE a.Defense_Rank <= b.Defense_Rank

\* the orders sort_values('Defense_Rank') can return for the position
\* (quicksort: rows of equal rank in any order)
RECURSIVE sort_by_defense_rank(_, _)
sort_by_defense_rank(position, rows) ==
    IF rows = {} THEN {<< >>}
    ELSE UNION {{<<r>> \o rest :
                    rest \in sort_by_defense_rank(position, rows \ {r})} :
                   r \in {x \in rows : \A y \in rows : ahead(position, x, y)}}

\* the category of the row at position pos of the sorted table
category_at(sizes, labels, pos) ==
    LET RECURSIVE upto(_)
        upto(i) == IF i = 0 THEN 0 ELSE sizes[i] + upto(i - 1)
    IN  labels[CHOOSE i \in 1..Len(labels) : upto(i - 1) < pos /\ pos <= upto(i)]

notTiers == <<simVars, runVars, fuseVars, nameVars, schedVars,
    oppVars,
    statVars,
    offVars,
    keyVars>>

InitTiers ==
    /\ SimIdle /\ RunsIdle /\ FuseIdle /\ NamesIdle /\ SchedIdle
    /\ OppIdle
    /\ StatsIdle
    /\ OffIdle
    /\ KeysIdle
    /\ tr_pc = "start"
    /\ tr_position \in DefPositions
    /\ num_categories \in 1..MaxCategories
    /\ defense_df \in DefenseTables(tr_position)
    /\ df_copy = << >>

\* if df.empty: continue
skip_empty ==
    /\ tr_pc = "start"
    /\ defense_df = << >>
    /\ tr_pc' = "skipped"
    /\ UNCHANGED <<tr_position, num_categories, defense_df, df_copy, notTiers>>

\* the body of the loop for one position
categorize ==
    /\ tr_pc = "start"
    /\ defense_df # << >>
    /\ LET n_teams == Len(defense_df)
           sizes == category_sizes(n_teams, num_categories)
           labels == categories(num_categories)
           rows == {defense_df[i] : i \in 1..n_teams}
       IN  \E sorted \in sort_by_defense_rank(tr_position, rows) :
               df_copy' = [pos \in 1..n_teams |->
                   [Team |-> sorted[pos].Team,
                    Defense_Rank |-> sorted[pos].Defense_Rank,
                    Category |-> category_at(sizes, labels, pos)]]
    /\ tr_pc' = "done"
    /\ UNCHANGED <<tr_position, num_categories, defense_df, notTiers>>

NextTiers == skip_empty \/ categorize

SpecTiers == InitTiers /\ [][NextTiers]_vars

\* the rows of the categorized table in the i-th category
tier(i) ==
    {pos \in 1..Len(df_copy) :
        df_copy[pos].Category = categories(num_categories)[i]}

\* every team of the table is in exactly one tier, the tier sizes differ by at
\* most 1 with the extra teams in the best tiers, and no team of a worse tier
\* outranks a team of a better tier
Partitioned ==
    /\ Len(df_copy) = Len(defense_df)
    /\ \A i \in 1..Len(defense_df) :
           Cardinality({pos \in 1..Len(df_copy) :
               /\ df_copy[pos].Team = defense_df[i].Team
               /\ df_copy[pos].Defense_Rank = defense_df[i].Defense_Rank}) = 1
    /\ \A pos \in 1..Len(df_copy) :
           Cardinality({i \in 1..num_categories : pos \in tier(i)}) = 1
    /\ \A i, j \in 1..num_categories :
           i < j => /\ Cardinality(tier(i)) >= Cardinality(tier(j))
                    /\ Cardinality(tier(i)) - Cardinality(tier(j)) <= 1
    /\ \A i, j \in 1..num_categories :
           i < j => \A a \in tier(i), b \in tier(j) :
                        ahead(tr_position, df_copy[a], df_copy[b])

\* C16 as stated: categorize_defenses assigns every team of a position's table
\* to exactly one tier, uses exactly num_categories tiers, none of them empty,
\* of sizes that differ by at most 1 with the extra teams in the best tiers,
\* each tier a contiguous block of the rank order
C16_ExactlyNumCategoriesTiers ==
    tr_pc = "done" =>
        /\ Partitioned
        /\ \A i \in 1..num_categories : tier(i) # {}

\* C16 amended: the same, except that no tier is empty only when the table has
\* at least num_categories teams; a smaller table of n teams fills the n best
\* tiers with one team each and leaves the others empty
C16_TiersPartitionTable ==
    tr_pc = "done" =>
        /\ Partitioned
        /\ Len(defense_df) >= num_categories =>
               \A i \in 1..num_categories : tier(i) # {}
        /\ Len(defense_df) < num_categories =>
               \A i \in 1..num_categories :
                   Cardinality(tier(i)) = IF i <= Len(defense_df) THEN 1 ELSE 0

\* a table of 6 teams with a tie in the five default tiers, two teams in the
\* best and one in each other
C16_Witness ==
    /\ tr_pc = "done"
    /\ num_categories = 5
    /\ Len(defense_df) = 6
    /\ \E i, j \in 1..6 :
           i # j /\ defense_df[i].Defense_Rank = defense_df[j].Defense_Rank
    /\ Cardinality(tier(1)) = 2 /\ Cardinality(tier(5)) = 1

-----------------------------------------------------------------------------
\* tools/defense_ranking_tool.py: the schedule score that
\* add_defense_matchup_to_players gives to one player

\* the longest schedule explored
MaxWeeks == 2

\* Defense_Rank among the 32 teams: the best, the worst and the one before it
DefenseRanks == {1, 31, 32}

\* two entries of team_map
team_map ==
    [DAL |-> <<"DAL", "Dallas", "Cowboys">>,
     PHI |-> <<"PHI", "Philadelphia", "Eagles">>]

\* team_to_variations.get(opponent, [opponent])
team_to_variations(opponent) ==
    IF \E code \in DOMAIN team_map, i \in 1..3 : team_map[code][i] = opponent
    THEN team_map[CHOOSE code \in DOMAIN team_map :
                      \E i \in 1..3 : team_map[code][i] = opponent]
    ELSE <<opponent>>

\* def_data: the Defense_Rank under the first variation of the opponent's name
\* that the position's table has, << >> for None
def_data(lookup_of_position, opponent) ==
    LET vs == team_to_variations(opponent)
        hits == {i \in 1..Len(vs) : vs[i] \in DOMAIN lookup_of_position}
    IN  IF hits = {} THEN << >>
        ELSE <<lookup_of_position[vs[CHOOSE i \in hits :
                                        \A j \in hits : i <= j]]>>

\* a matchup score that reads every position like an offensive one
matchup_score_offense(position, defense_rank) == 33 - defense_rank

\* matchup_score in units of 100/32: (defense_rank / 32) * 100 for DEF,
\* ((33 - defense_rank) / 32) * 100 otherwise
matchup_score(position, defense_rank) ==
    IF position = "DEF" THEN defense_rank ELSE 33 - defense_rank

\* the players: a team with a schedule or a free agent; a position that is a
\* key of defense_files (QB, DEF) or the position of a team defense in the
\* pool, DST
SchedPlayers == [Team : {"NYG", "FA"}, Pos : {"QB", "DEF", "DST"}]

\* the schedules of the one team: a bye, opponents under a name the defense
\* tables may not use, an opponent no table has
Schedules ==
    UNION {[1..n -> {"BYE", "Dallas", "PHI", "London"}] : n \in 0..MaxWeeks}

\* the defense tables: any of three team names, any rank
DefenseLookups ==
    UNION {[names -> DefenseRanks] : names \in SUBSET {"DAL", "Cowboys", "PHI"}}

\* the rating of avg_difficulty = (total_difficulty / matchup_count), the
\* total in units of 100/32; the thresholds are the same for DEF and for the
\* other positions
schedule_rating(total, count) ==
    IF 100 * total >= 80 * 32 * count THEN "Very Favorable"
    ELSE IF 100 * total >= 60 * 32 * count THEN "Favorable"
    ELSE IF 100 * total >= 40 * 32 * count THEN "Average"
    ELSE IF 100 * total >= 20 * 32 * count THEN "Difficult"
    ELSE "Very Difficult"

notSched == <<simVars, runVars, fuseVars, nameVars, tierVars,
    oppVars,
    statVars,
    offVars,
    keyVars>>

InitSchedule ==
    /\ SimIdle /\ RunsIdle /\ FuseIdle /\ NamesIdle /\ TiersIdle
    /\ OppIdle
    /\ StatsIdle
    /\ OffIdle
    /\ KeysIdle
    /\ sc_pc = "player"
    /\ player \in SchedPlayers
    /\ \E weeks \in Schedules : nfl_schedule = [NYG |-> weeks]
    /\ \E table \in DefenseLookups :
           defense_lookup = [position \in DefPositions |-> table]
    /\ week = 0
    /\ total_difficulty = 0
    /\ matchup_count = 0
    /\ score = << >>
    /\ rating = ""

\* if position not in defense_lookup or team not in nfl_schedule: continue
skip_player ==
    /\ sc_pc = "player"
    /\ \/ player.Pos \notin DOMAIN defense_lookup
       \/ player.Team \notin DOMAIN nfl_schedule
    /\ sc_pc' = "skipped"
    /\ UNCHANGED <<player, nfl_schedule, defense_lookup, week, total_difficulty,
                   matchup_count, score, rating, notSched>>

\* total_difficulty = 0; matchup_count = 0; enter the loop over the weeks
start_weeks ==
    /\ sc_pc = "player"
    /\ player.Pos \in DOMAIN defense_lookup
    /\ player.Team \in DOMAIN nfl_schedule
    /\ total_difficulty' = 0
    /\ matchup_count' = 0
    /\ week' = 1
    /\ sc_pc' = "weeks"
    /\ UNCHANGED <<player, nfl_schedule, defense_lookup, score, rating, notSched>>

\* if opponent == 'BYE': continue
bye_week ==
    /\ sc_pc = "weeks"
    /\ week <= Len(nfl_schedule[player.Team])
    /\ nfl_schedule[player.Team][week] = "BYE"
    /\ week' = week + 1
    /\ UNCHANGED <<sc_pc, player, nfl_schedule, defense_lookup,
                   total_difficulty, matchup_count, score, rating, notSched>>

\* def_data stays None: the week adds nothing
unresolved_week ==
    /\ sc_pc = "weeks"
    /\ week <= Len(nfl_schedule[player.Team])
    /\ nfl_schedule[player.Team][week] # "BYE"
    /\ def_data(defense_lookup[player.Pos],
                nfl_schedule[player.Team][week]) = << >>
    /\ week' = week + 1
    /\ UNCHANGED <<sc_pc, player, nfl_schedule, defense_lookup,
                   total_difficulty, matchup_count, score, rating, notSched>>

\* total_difficulty += matchup_score; matchup_count += 1
matchup_week ==
    /\ sc_pc = "weeks"
    /\ week <= Len(nfl_schedule[player.Team])
    /\ nfl_schedule[player.Team][week] # "BYE"
    /\ \E d \in {def_data(defense_lookup[player.Pos],
                          nfl_schedule[player.Team][week])} :
           /\ d # << >>
           /\ total_difficulty' =
                  total_difficulty + matchup_score(player.Pos, d[1])
    /\ matchup_count' = matchup_count + 1
    /\ week' = week + 1
    /\ UNCHANGED <<sc_pc, player, nfl_schedule, defense_lookup, score,
                   rating, notSched>>

\* if matchup_count > 0: Schedule_Difficulty_Score =
\* round(total_difficulty / matchup_count, 1), in tenths, and Schedule_Rating
\* from the average before it is rounded
average ==
    /\ sc_pc = "weeks"
    /\ week > Len(nfl_schedule[player.Team])
    /\ matchup_count > 0
    /\ score' = <<RoundDiv(1000 * total_difficulty, 32 * matchup_count)>>
    /\ rating' = schedule_rating(total_difficulty, matchup_count)
    /\ sc_pc' = "done"
    /\ UNCHANGED <<player, nfl_schedule, defense_lookup, week,
                   total_difficulty, matchup_count, notSched>>

\* matchup_count is 0: the player's row is left without a score
no_matchups ==
    /\ sc_pc = "weeks"
    /\ week > Len(nfl_schedule[player.Team])
    /\ matchup_count = 0
    /\ sc_pc' = "done"
    /\ UNCHANGED <<player, nfl_schedule, defense_lookup, week,
                   total_difficulty, matchup_count, score, rating, notSched>>

NextSchedule ==
    \/ skip_player
    \/ start_weeks
    \/ bye_week
    \/ unresolved_week
    \/ matchup_week
    \/ average
    \/ no_matchups

SpecSchedule == InitSchedule /\ [][NextSchedule]_vars

\* the weeks of the player's team that are no bye and whose opponent the table
\* of the player's position has under one of its names
ResolvableWeeks ==
    IF player.Team \notin DOMAIN nfl_schedule
           \/ player.Pos \notin DOMAIN defense_lookup
    THEN {}
    ELSE {w \in 1..Len(nfl_schedule[player.Team]) :
             /\ nfl_schedule[player.Team][w] # "BYE"
             /\ \E name \in DOMAIN defense_lookup[player.Pos] :
                    \E i \in 1..Len(team_to_variations(nfl_schedule[player.Team][w])) :
                        team_to_variations(nfl_schedule[player.Team][w])[i] = name}

\* 32 times the favorability of week w over 100: 33 - rank of the opponent's
\* defense against the player's position, the rank itself for a defense
Favorability32(w) ==
    LET d == def_data(defense_lookup[player.Pos], nfl_schedule[player.Team][w])
    IN  IF player.Pos = "DEF" THEN d[1] ELSE 33 - d[1]

RECURSIVE SumOver(_, _)
SumOver(F(_), S) ==
    IF S = {} THEN 0
    ELSE LET x == CHOOSE y \in S : TRUE IN F(x) + SumOver(F, S \ {x})

-----------------------------------------------------------------------------
\* team_ranking_tool.py: the normalization of Position_Opportunity_Score at
\* the end of add_offense_context_to_rankings.  Scores are held in hundredths.

\* the most players explored
MaxOppRows == 3

\* the raw scores the scoring loop can leave: NaN for a player whose team has
\* no offense row or whose position has no score, 10.00, 25.00 or 40.00
RawScores == {<< >>, <<1000>>, <<2500>>, <<4000>>}

OppPositions == {"QB", "RB"}

\* enhanced_df['Pos'].unique(): the positions in order of first appearance
RECURSIVE unique(_)
unique(seq) ==
    IF seq = << >> THEN << >>
    ELSE LET rest == unique(SubSeq(seq, 1, Len(seq) - 1))
             x == seq[Len(seq)]
         IN  IF \E i \in 1..Len(rest) : rest[i] = x THEN rest
             ELSE Append(rest, x)

\* a mask that takes every player
mask_all(df, pos) == 1..Len(df)

\* mask = enhanced_df['Pos'] == pos
mask(df, pos) == {i \in 1..Len(df) : df[i].Pos = pos}

\* scores.min() and scores.max() skip NaN; << >> when nothing is left
scores_of(df, rows) == {df[i].score[1] : i \in {j \in rows : df[j].score # << >>}}
min_score(df, rows) ==
    IF scores_of(df, rows) = {} THEN << >>
    ELSE <<CHOOSE x \in scores_of(df, rows) : \A y \in scores_of(df, rows) : x <= y>>
max_score(df, rows) ==
    IF scores_of(df, rows) = {} THEN << >>
    ELSE <<CHOOSE x \in scores_of(df, rows) : \A y \in scores_of(df, rows) : x >= y>>

\* (scores - min_score) / (max_score - min_score) * 100 of one score
normalized(sc, lo, hi) ==
    IF sc = << >> THEN << >>
    ELSE <<RoundDiv(10000 * (sc[1] - lo), hi - lo)>>

notOpp == <<simVars, runVars, fuseVars, nameVars, tierVars, schedVars,
    statVars,
    offVars,
    keyVars>>

InitOpp ==
    /\ SimIdle /\ RunsIdle /\ FuseIdle /\ NamesIdle /\ TiersIdle /\ SchedIdle
    /\ StatsIdle
    /\ OffIdle
    /\ KeysIdle
    /\ op_pc = "scored"
    /\ \E n \in 1..MaxOppRows :
           raw_df \in [1..n -> [Pos : OppPositions, score : RawScores]]
    /\ enhanced_df = raw_df
    /\ op_positions = << >>

\* if 'Position_Opportunity_Score' in enhanced_df.columns (no player got a
\* score: the column does not exist)
no_column ==
    /\ op_pc = "scored"
    /\ \A i \in 1..Len(enhanced_df) : enhanced_df[i].score = << >>
    /\ op_pc' = "done"
    /\ UNCHANGED <<raw_df, enhanced_df, op_positions, notOpp>>

\* for pos in enhanced_df['Pos'].unique():
enter_groups ==
    /\ op_pc = "scored"
    /\ \E i \in 1..Len(enhanced_df) : enhanced_df[i].score # << >>
    /\ op_positions' = unique([i \in 1..Len(enhanced_df) |-> enhanced_df[i].Pos])
    /\ op_pc' = "groups"
    /\ UNCHANGED <<raw_df, enhanced_df, notOpp>>

\* one pass of the loop with max_score > min_score
normalize_group ==
    /\ op_pc = "groups"
    /\ op_positions # << >>
    /\ \E rows \in {mask(enhanced_df, Head(op_positions))} :
       \E lo \in {min_score(enhanced_df, rows)}, hi \in {max_score(enhanced_df, rows)} :
           /\ lo # << >> /\ hi[1] > lo[1]
           /\ enhanced_df' = [i \in 1..Len(enhanced_df) |->
                  IF i \in rows
                  THEN [Pos |-> enhanced_df[i].Pos,
                        score |-> normalized(enhanced_df[i].score, lo[1], hi[1])]
                  ELSE enhanced_df[i]]
    /\ op_positions' = Tail(op_positions)
    /\ UNCHANGED <<op_pc, raw_df, notOpp>>

\* one pass of the loop with max_score > min_score false (equal scores, or
\* NaN for both)
leave_group ==
    /\ op_pc = "groups"
    /\ op_positions # << >>
    /\ \E rows \in {mask(enhanced_df, Head(op_positions))} :
       \E lo \in {min_score(enhanced_df, rows)}, hi \in {max_score(enhanced_df, rows)} :
           ~(lo # << >> /\ hi[1] > lo[1])
    /\ op_positions' = Tail(op_positions)
    /\ UNCHANGED <<op_pc, raw_df, enhanced_df, notOpp>>

\* return enhanced_df.to_json(...)
return_json ==
    /\ op_pc = "groups"
    /\ op_positions = << >>
    /\ op_pc' = "done"
    /\ UNCHANGED <<raw_df, enhanced_df, op_positions, notOpp>>

NextOpp ==
    \/ no_column
    \/ enter_groups
    \/ normalize_group
    \/ leave_group
    \/ return_json

SpecOpp == InitOpp /\ [][NextOpp]_vars

\* the raw scores of the players of a position
RawOf(pos) ==
    {raw_df[i].score[1] :
        i \in {j \in 1..Len(raw_df) : raw_df[j].Pos = pos /\ raw_df[j].score # << >>}}

\* the scores of the players of a position after the normalization
FinalOf(pos) ==
    {enhanced_df[i].score[1] :
        i \in {j \in 1..Len(enhanced_df) :
                  enhanced_df[j].Pos = pos /\ enhanced_df[j].score # << >>}}

\* C21: after add_offense_context_to_rankings a position group with two
\* distinct raw scores has minimum 0 and maximum 100, each score computed from
\* the raw scores of that position only; a group whose raw scores are all
\* equal keeps them
C21_NormalizedPerPosition ==
    op_pc = "done" =>
        \A pos \in OppPositions :
            /\ Cardinality(RawOf(pos)) >= 2 =>
                   /\ \A x \in FinalOf(pos) : 0 <= x /\ x <= 10000
                   /\ 0 \in FinalOf(pos) /\ 10000 \in FinalOf(pos)
                   /\ \A i \in 1..Len(raw_df) :
                          (raw_df[i].Pos = pos /\ raw_df[i].score # << >>) =>
                              \E lo, hi \in RawOf(pos) :
                                  /\ \A y \in RawOf(pos) : lo <= y /\ y <= hi
                                  /\ enhanced_df[i].score =
                                         <<RoundDiv(10000 * (raw_df[i].score[1] - lo),
                                                    hi - lo)>>
            /\ Cardinality(RawOf(pos)) < 2 =>
                   \A i \in 1..Len(raw_df) :
                       raw_df[i].Pos = pos => enhanced_df[i] = raw_df[i]

\* quarterbacks at 10, 25 and 40 end at 0, 50 and 100; or a quarterback group
\* is normalized next to a running back who keeps the raw score
C21_Witness ==
    /\ op_pc = "done"
    /\ Cardinality(RawOf("QB")) >= 2
    /\ \/ FinalOf("QB") = {0, 5000, 10000}
       \/ /\ RawOf("RB") = {4000} /\ FinalOf("RB") = {4000}
          /\ FinalOf("QB") = {0, 10000}

-----------------------------------------------------------------------------
\* player_ranking_tool.py: the 2023 statistics that
\* load_and_combine_fantasy_data adds to the fused pool.  The 2023_ columns of
\* a statistics row are held as one value, its fantasy points.

\* the most players of the pool and the most rows of a statistics file
MaxPool == 2
MaxStatRows == 1

StatPositions == <<"QB", "RB">>

\* the fused pools: players with a name and a position, no statistics yet
StatPools ==
    {pool \in SUBSET [Name : {OB, OBJ}, Pos : {"QB", "RB"},
                      points : {<< >>}, rank2023 : {<< >>}] :
        pool # {} /\ Cardinality(pool) <= MaxPool}

\* what pd.read_csv and the processing of a statistics file give: the rows,
\* or an exception of the reading or of the processing
StatFiles ==
    [kind : {"unreadable", "malformed"}, rows : {<< >>}]
        \cup [kind : {"csv"},
              rows : UNION {[1..n -> [Name : {OB, AOB}, points : {10, 20}]] :
                               n \in 0..MaxStatRows}]

\* the statistics of every position go to every player
applies_any(pos, current_pos) == TRUE

\* if pos == current_pos or (pos == 'DST' and current_pos == 'DST')
applies(pos, current_pos) ==
    pos = current_pos \/ (pos = "DST" /\ current_pos = "DST")

\* name_to_stats: the last row of a standardized name
name_to_stats(rows, std_name) ==
    LET hits == {i \in 1..Len(rows) : standardize_name(rows[i].Name) = std_name}
    IN  IF hits = {} THEN << >>
        ELSE <<rows[CHOOSE i \in hits : \A j \in hits : j <= i].points>>

\* the orders sort_values('2023_Fantasy_Points', ascending=False) can return
RECURSIVE sort_by_points(_)
sort_by_points(rows) ==
    IF rows = {} THEN {<< >>}
    ELSE UNION {{<<r>> \o rest : rest \in sort_by_points(rows \ {r})} :
                   r \in {x \in rows : \A y \in rows : x.points[1] >= y.points[1]}}

\* rank_mapping = {name: rank + 1 for rank, name in enumerate(...)}: the last
\* rank of a standardized name, << >> for a name without one
rank_mapping(sorted, std_name) ==
    LET hits == {i \in 1..Len(sorted) : standardize_name(sorted[i].Name) = std_name}
    IN  IF hits = {} THEN << >>
        ELSE <<CHOOSE i \in hits : \A j \in hits : j <= i>>

notStats == <<simVars, runVars, fuseVars, nameVars, tierVars, schedVars, oppVars,
    offVars,
    keyVars>>

InitStats ==
    /\ SimIdle /\ RunsIdle /\ FuseIdle /\ NamesIdle /\ TiersIdle /\ SchedIdle
    /\ OppIdle
    /\ OffIdle
    /\ KeysIdle
    /\ st_pc = "load"
    /\ stats_files \in [{"QB", "RB"} -> StatFiles]
    /\ stats_dfs = [pos \in {"QB", "RB"} |-> [ok |-> FALSE, rows |-> << >>]]
    /\ final_df_with_stats \in StatPools
    /\ st_todo = StatPositions

\* the try block of one position ends: stats_dfs[pos] = df
load_stats ==
    /\ st_pc = "load"
    /\ st_todo # << >>
    /\ stats_files[Head(st_todo)].kind = "csv"
    /\ stats_dfs' = [stats_dfs EXCEPT
           ![Head(st_todo)] = [ok |-> TRUE, rows |-> stats_files[Head(st_todo)].rows]]
    /\ st_todo' = Tail(st_todo)
    /\ UNCHANGED <<st_pc, stats_files, final_df_with_stats, notStats>>

\* except Exception: stats_dfs[pos] = None
load_error ==
    /\ st_pc = "load"
    /\ st_todo # << >>
    /\ stats_files[Head(st_todo)].kind # "csv"
    /\ stats_dfs' = [stats_dfs EXCEPT ![Head(st_todo)] = [ok |-> FALSE, rows |-> << >>]]
    /\ st_todo' = Tail(st_todo)
    /\ UNCHANGED <<st_pc, stats_files, final_df_with_stats, notStats>>

\* the loop over stats_files is over: final_df.copy(), std_name, the empty
\* 2023 columns
start_merge ==
    /\ st_pc = "load"
    /\ st_todo = << >>
    /\ st_pc' = "merge"
    /\ st_todo' = StatPositions
    /\ UNCHANGED <<stats_files, stats_dfs, final_df_with_stats, notStats>>

\* one pass of the loop over stats_dfs with a frame: every player of the
\* position whose standardized name the frame has takes the row's 2023 columns
merge_stats ==
    /\ st_pc = "merge"
    /\ st_todo # << >>
    /\ stats_dfs[Head(st_todo)].ok
    /\ final_df_with_stats' =
           {IF applies(Head(st_todo), row.Pos)
                   /\ name_to_stats(stats_dfs[Head(st_todo)].rows,
                                    standardize_name(row.Name)) # << >>
            THEN [row EXCEPT !.points =
                      name_to_stats(stats_dfs[Head(st_todo)].rows,
                                    standardize_name(row.Name))]
            ELSE row : row \in final_df_with_stats}
    /\ st_todo' = Tail(st_todo)
    /\ UNCHANGED <<st_pc, stats_files, stats_dfs, notStats>>

\* if stats_df is not None (false)
skip_none ==
    /\ st_pc = "merge"
    /\ st_todo # << >>
    /\ ~stats_dfs[Head(st_todo)].ok
    /\ st_todo' = Tail(st_todo)
    /\ UNCHANGED <<st_pc, stats_files, stats_dfs, final_df_with_stats, notStats>>

\* 2023_Overall_Rank of the players with fantasy points, mapped by std_name
overall_rank_2023 ==
    /\ st_pc = "merge"
    /\ st_todo = << >>
    /\ \E row \in final_df_with_stats : row.points # << >>
    /\ \E sorted \in sort_by_points({row \in final_df_with_stats : row.points # << >>}) :
           final_df_with_stats' =
               {[row EXCEPT !.rank2023 = rank_mapping(sorted, standardize_name(row.Name))] :
                   row \in final_df_with_stats}
    /\ st_pc' = "done"
    /\ UNCHANGED <<stats_files, stats_dfs, st_todo, notStats>>

\* "Warning: No 2023 fantasy points data found for any players."
no_points_2023 ==
    /\ st_pc = "merge"
    /\ st_todo = << >>
    /\ \A row \in final_df_with_stats : row.points = << >>
    /\ st_pc' = "done"
    /\ UNCHANGED <<stats_files, stats_dfs, final_df_with_stats, st_todo, notStats>>

NextStats ==
    \/ load_stats
    \/ load_error
    \/ start_merge
    \/ merge_stats
    \/ skip_none
    \/ overall_rank_2023
    \/ no_points_2023

SpecStats == InitStats /\ [][NextStats]_vars

-----------------------------------------------------------------------------
\* team_ranking_tool.py: analyze_team_offenses.  One metric, YDS/G, stands for
\* the six of the pivot table: the pivot has the column of a metric for a year
\* exactly when it has the column of every other metric for that year.  Ranks
\* are held doubled (rank() averages the ranks of tied teams), the slope of the
\* three-year trend is held doubled too.

\* the most years of offense_files_dict
MaxYears == 3

\* the keys of offense_files_dict, n years
YearsOf(n) == {2021 + i : i \in 1..n}

OffTeams == {"DAL", "NYG"}

\* the tables of one year: a row for some of the teams, YDS/G 300 or 350
OffenseTables ==
    UNION {{{[TEAM |-> t, yds |-> f[t]] : t \in S} : f \in [S -> {300, 350}]} :
              S \in SUBSET OffTeams}

OffenseFiles ==
    {[ok |-> FALSE, rows |-> {}]} \cup [ok : {TRUE}, rows : OffenseTables \ {{}}]

\* the years in ascending order
RECURSIVE sorted_years(_)
sorted_years(S) ==
    IF S = {} THEN << >>
    ELSE LET m == CHOOSE x \in S : \A y \in S : y <= x
         IN  Append(sorted_years(S \ {m}), m)

\* recent_years = sorted(offense_files_dict.keys())[-3:]
recent_years(keys) ==
    LET ys == sorted_years(DOMAIN keys)
    IN  IF Len(ys) <= 3 THEN ys ELSE SubSeq(ys, Len(ys) - 2, Len(ys))

\* most_recent_year = max(offense_files_dict.keys())
most_recent_year(keys) == CHOOSE x \in DOMAIN keys : \A y \in DOMAIN keys : y <= x

\* the years that have a column in the pivot table: the loaded ones that
\* have a row
pivot_columns(dfs) == {y \in DOMAIN dfs : dfs[y] # {}}

\* the value of a team's cell, << >> for NaN
cell(dfs, team, year) ==
    IF \E r \in dfs[year] : r.TEAM = team
    THEN <<(CHOOSE r \in dfs[year] : r.TEAM = team).yds>>
    ELSE << >>

\* the years of avg_cols
years_read(keys, dfs) ==
    {recent_years(keys)[i] : i \in 1..Len(recent_years(keys))}

\* team_trends[f'{metric}_{most_recent_year}'] and team_trends[avg_cols]
\* raise KeyError for a column the pivot table does not have
years_needed(keys, dfs) == years_read(keys, dfs) \cup {most_recent_year(keys)}

\* rank(ascending=False) of a value among the values, doubled
rank2(values, v) ==
    2 * Cardinality({i \in DOMAIN values : values[i] > v})
        + Cardinality({i \in DOMAIN values : values[i] = v}) + 1

notOff == <<simVars, runVars, fuseVars, nameVars, tierVars, schedVars, oppVars,
    statVars,
    keyVars>>

InitOff ==
    /\ SimIdle /\ RunsIdle /\ FuseIdle /\ NamesIdle /\ TiersIdle /\ SchedIdle
    /\ OppIdle
    /\ StatsIdle
    /\ KeysIdle
    /\ of_pc = "load"
    /\ \E n \in 1..MaxYears : offense_files_dict \in [YearsOf(n) -> OffenseFiles]
    /\ yearly_dfs = << >>
    /\ of_todo = sorted_years(DOMAIN offense_files_dict)
    /\ team_trends = << >>
    /\ final_offense_df = << >>

\* try: df = pd.read_csv(file_path) ... yearly_dfs[year] = df
load_year ==
    /\ of_pc = "load"
    /\ of_todo # << >>
    /\ offense_files_dict[Head(of_todo)].ok
    /\ yearly_dfs' = yearly_dfs @@ (Head(of_todo) :> offense_files_dict[Head(of_todo)].rows)
    /\ of_todo' = Tail(of_todo)
    /\ UNCHANGED <<of_pc, offense_files_dict, team_trends, final_offense_df, notOff>>

\* except Exception: print(f"Error loading offense data for {year}: {e}")
load_year_error ==
    /\ of_pc = "load"
    /\ of_todo # << >>
    /\ ~offense_files_dict[Head(of_todo)].ok
    /\ of_todo' = Tail(of_todo)
    /\ UNCHANGED <<of_pc, offense_files_dict, yearly_dfs, team_trends,
                   final_offense_df, notOff>>

\* if not yearly_dfs: return json.dumps([])
return_empty ==
    /\ of_pc = "load"
    /\ of_todo = << >>
    /\ DOMAIN yearly_dfs = {}
    /\ of_pc' = "done"
    /\ UNCHANGED <<offense_files_dict, yearly_dfs, of_todo, team_trends,
                   final_offense_df, notOff>>

\* pd.concat, the derived metrics and pivot_table: a row for every team of a
\* loaded year, a column for every loaded year that has a row
pivot_table ==
    /\ of_pc = "load"
    /\ of_todo = << >>
    /\ DOMAIN yearly_dfs # {}
    /\ team_trends' =
           [team \in {r.TEAM : r \in UNION {yearly_dfs[y] : y \in DOMAIN yearly_dfs}} |->
               [cols |-> [y \in pivot_columns(yearly_dfs) |-> cell(yearly_dfs, team, y)],
                Recent |-> << >>, Avg |-> << >>, YoY |-> << >>, Trend |-> << >>]]
    /\ of_pc' = "pivoted"
    /\ UNCHANGED <<offense_files_dict, yearly_dfs, of_todo, final_offense_df, notOff>>

\* a column that the trend metrics read is not in the pivot table: KeyError
raise_KeyError ==
    /\ of_pc = "pivoted"
    /\ ~(years_needed(offense_files_dict, yearly_dfs) \subseteq pivot_columns(yearly_dfs))
    /\ of_pc' = "raised"
    /\ UNCHANGED <<offense_files_dict, yearly_dfs, of_todo, team_trends,
                   final_offense_df, notOff>>

\* the loop over the metrics: _Recent, _3YR_Avg, _YoY_Change and _Trend
trend_metrics ==
    /\ of_pc = "pivoted"
    /\ years_needed(offense_files_dict, yearly_dfs) \subseteq pivot_columns(yearly_dfs)
    /\ \E ys \in {recent_years(offense_files_dict)} :
           team_trends' = [team \in DOMAIN team_trends |->
               LET cols == team_trends[team].cols
                   has(y) == y \in DOMAIN cols /\ cols[y] # << >>
                   present == {i \in 1..Len(ys) : has(ys[i])}
                   total == SumOver(LAMBDA i : cols[ys[i]][1], present)
               IN  [cols |-> cols,
                    Recent |-> IF most_recent_year(offense_files_dict) \in DOMAIN cols
                               THEN cols[most_recent_year(offense_files_dict)]
                               ELSE << >>,
                    Avg |-> IF present = {} THEN << >>
                            ELSE <<RoundDiv(10 * total, Cardinality(present))>>,
                    YoY |-> IF Len(ys) >= 2 /\ has(ys[Len(ys)]) /\ has(ys[Len(ys) - 1])
                            THEN <<cols[ys[Len(ys)]][1] - cols[ys[Len(ys) - 1]][1]>>
                            ELSE << >>,
                    Trend |-> IF Len(ys) >= 3 /\ \A i \in 1..Len(ys) : has(ys[i])
                              THEN <<cols[ys[3]][1] - cols[ys[1]][1]>>
                              ELSE << >>]]
    /\ of_pc' = "trended"
    /\ UNCHANGED <<offense_files_dict, yearly_dfs, of_todo, final_offense_df, notOff>>

\* the ranks of the most recent year and the left merge with the trends
summary ==
    /\ of_pc = "trended"
    /\ \E df \in {yearly_dfs[most_recent_year(offense_files_dict)]} :
           final_offense_df' = [team \in {r.TEAM : r \in df} |->
               [Total_Offense_Rank |->
                    rank2([t \in {r.TEAM : r \in df} |-> cell(yearly_dfs, t,
                              most_recent_year(offense_files_dict))[1]],
                          cell(yearly_dfs, team, most_recent_year(offense_files_dict))[1]),
                Trend |-> team_trends[team].Trend,
                YoY |-> team_trends[team].YoY]]
    /\ of_pc' = "done"
    /\ UNCHANGED <<offense_files_dict, yearly_dfs, of_todo, team_trends, notOff>>

NextOff ==
    \/ load_year
    \/ load_year_error
    \/ return_empty
    \/ pivot_table
    \/ raise_KeyError
    \/ trend_metrics
    \/ summary

SpecOff == InitOff /\ [][NextOff]_vars

\* one of the years the trends need could not be read, another year could
UnreadableRequiredYear ==
    /\ of_pc # "off"
    /\ \E y \in years_read(offense_files_dict, yearly_dfs) : ~offense_files_dict[y].ok
    /\ \E y \in DOMAIN offense_files_dict : offense_files_dict[y].ok

\* C23: when the offense file of one of the required years is missing or
\* unreadable, analyze_team_offenses does not raise, and its result has the
\* teams of the most recent year with their ranks and without trend values
C23_MissingYearTolerated ==
    UnreadableRequiredYear =>
        /\ of_pc # "raised"
        /\ of_pc = "done" =>
               /\ offense_files_dict[most_recent_year(offense_files_dict)].ok
               /\ \A r \in offense_files_dict[most_recent_year(offense_files_dict)].rows :
                      /\ r.TEAM \in DOMAIN final_offense_df
                      /\ final_offense_df[r.TEAM].Total_Offense_Rank >= 2
                      /\ final_offense_df[r.TEAM].Trend = << >>

-----------------------------------------------------------------------------
\* tools/defense_ranking_tool.py: add_defense_matchup_to_players over the
\* schedules of a season, up to MaxGames games against two opponents

MaxGames == 13

\* n copies of an opponent
Repeat(opponent, n) == [i \in 1..n |-> opponent]

\* a first week that is a bye or has an opponent without a table, or neither,
\* then games against Dallas, then games against Philadelphia
SeasonSchedules ==
    UNION {{first \o Repeat("Dallas", k) \o Repeat("PHI", n - k) :
               first \in {<< >>, <<"BYE">>, <<"London">>}, k \in 0..n} :
              n \in 0..MaxGames} \ {<< >>}

\* the 26th and the 27th defense
SeasonLookup == [DAL |-> 26, PHI |-> 27]

InitSeason ==
    /\ SimIdle /\ RunsIdle /\ FuseIdle /\ NamesIdle /\ TiersIdle
    /\ OppIdle
    /\ StatsIdle
    /\ OffIdle
    /\ KeysIdle
    /\ sc_pc = "player"
    /\ player \in SchedPlayers
    /\ \E weeks \in SeasonSchedules : nfl_schedule = [NYG |-> weeks]
    /\ defense_lookup = [position \in DefPositions |-> SeasonLookup]
    /\ week = 0
    /\ total_difficulty = 0
    /\ matchup_count = 0
    /\ score = << >>
    /\ rating = ""

SpecSeason == InitSeason /\ [][NextSchedule]_vars

\* the bucket of a stored score (in tenths)
Bucket(tenths) ==
    IF tenths >= 800 THEN "Very Favorable"
    ELSE IF tenths >= 600 THEN "Favorable"
    ELSE IF tenths >= 400 THEN "Average"
    ELSE IF tenths >= 200 THEN "Difficult"
    ELSE "Very Difficult"

\* C24: the Schedule_Rating stored for a player is the bucket of the
\* Schedule_Difficulty_Score stored for that player
C24_RatingIsBucketOfScore ==
    (sc_pc = "done" /\ score # << >>) => rating = Bucket(score[1])

\* C25: a team defense of the pool (DST) whose team has a schedule with a week
\* against a defense of the DEF table receives a Schedule_Difficulty_Score,
\* the average of (defense_rank / 32) * 100 over its resolvable weeks
C25_TeamDefenseGetsScore ==
    (/\ sc_pc \in {"done", "skipped"}
     /\ player.Pos = "DST"
     /\ player.Team \in DOMAIN nfl_schedule
     /\ \E w \in 1..Len(nfl_schedule[player.Team]) :
            /\ nfl_schedule[player.Team][w] # "BYE"
            /\ def_data(defense_lookup["DEF"], nfl_schedule[player.Team][w]) # << >>)
        => LET weeks == {w \in 1..Len(nfl_schedule[player.Team]) :
                            /\ nfl_schedule[player.Team][w] # "BYE"
                            /\ def_data(defense_lookup["DEF"],
                                        nfl_schedule[player.Team][w]) # << >>}
               rank(w) == def_data(defense_lookup["DEF"],
                                   nfl_schedule[player.Team][w])[1]
           IN  score = <<RoundDiv(1000 * SumOver(rank, weeks),
                                  32 * Cardinality(weeks))>>

-----------------------------------------------------------------------------
\* The places that normalize a player name before matching:
\* player_ranking_tool.standardize_name, DraftSimulator.normalize_player_name
\* (with the .lower() of its two uses), the suffix pattern of benchmark.py and
\* the suffix pattern of analysis_graphs.py.  Names are sequences of characters.

\* \w
IsWord(c) == c \notin {" ", ".", "'"}

\* re.sub(r'\s+(Jr\.|Sr\.|III|IV|II)\.?$', '', name).strip()
normalize_player_name(name) ==
    LET dotless == IF name # << >> /\ name[Len(name)] = "."
                   THEN SubSeq(name, 1, Len(name) - 1) ELSE name
    IN  IF re_sub_suffix(name) # name THEN strip(re_sub_suffix(name))
        ELSE IF re_sub_suffix(dotless) # dotless THEN strip(re_sub_suffix(dotless))
        ELSE strip(name)

\* re.sub(r"\s+(Jr\.|Sr\.|II|III|IV|V)$", "", name) of benchmark.py
benchmark_clean(name) ==
    IF EndsWithSuffix(name, <<"V">>)
    THEN drop_spaces(SubSeq(name, 1, Len(name) - 1))
    ELSE re_sub_suffix(name)

\* the words that r"\b(Jr\.?|Sr\.?|II|III|IV|V)\b" matches
graph_words ==
    { <<"J", "r">>, <<"S", "r">>, <<"I", "I">>, <<"I", "I", "I">>,
      <<"I", "V">>, <<"V">> }

\* the last character of the word that starts at i
word_end(str, i) ==
    CHOOSE j \in i..Len(str) :
        /\ \A k \in i..j : IsWord(str[k])
        /\ j = Len(str) \/ ~IsWord(str[j + 1])

\* re.sub(r"\b(Jr\.?|Sr\.?|II|III|IV|V)\b", "", str) from character i on:
\* every word of the pattern is removed wherever it stands, and the period
\* after Jr or Sr with it when a word character follows the period
RECURSIVE re_sub_words(_, _)
re_sub_words(str, i) ==
    IF i > Len(str) THEN << >>
    ELSE IF ~IsWord(str[i]) THEN <<str[i]>> \o re_sub_words(str, i + 1)
    ELSE LET j == word_end(str, i)
             w == SubSeq(str, i, j)
         IN  IF w \notin graph_words THEN w \o re_sub_words(str, j + 1)
             ELSE IF /\ w \in {<<"J", "r">>, <<"S", "r">>}
                     /\ j + 2 <= Len(str)
                     /\ str[j + 1] = "."
                     /\ IsWord(str[j + 2])
                  THEN re_sub_words(str, j + 2)
                  ELSE re_sub_words(str, j + 1)

\* re.sub(suffix_pattern, "", player_name).strip().lower() of analysis_graphs.py
graphs_clean(name) == lower(strip(re_sub_words(name, 1)))

\* the key each place matches on
Normalizers == {"fusion", "scorer", "benchmark", "graphs"}
name_key(place, name) ==
    CASE place = "fusion" -> standardize_name(name)
      [] place = "scorer" -> lower(normalize_player_name(name))
      [] place = "benchmark" -> benchmark_clean(name)
      [] place = "graphs" -> graphs_clean(name)

\* the names: plain, in lower case, with a suffix of the vocabulary, with
\* periods, with a suffix word in front
KeyNames ==
    { <<"O", "b">>, <<"o", "b">>, <<"O", ".", "b">>,
      <<"O", "b", " ", "J", "r", ".">>, <<"O", "b", " ", "J", "r">>,
      <<"O", "b", " ", "I", "I", ".">>, <<"O", "b", " ", "V">>,
      <<"V", " ", "O", "b">> }

notKeys == <<simVars, runVars, fuseVars, nameVars, tierVars, schedVars, oppVars,
    statVars,
    offVars>>

InitKeys ==
    /\ SimIdle /\ RunsIdle /\ FuseIdle /\ NamesIdle /\ TiersIdle /\ SchedIdle
    /\ OppIdle
    /\ StatsIdle
    /\ OffIdle
    /\ ky_pc = "in"
    /\ ky_a \in KeyNames
    /\ ky_b \in KeyNames
    /\ ky_keys = << >>

\* one of the places normalizes the two names
normalize_names(place) ==
    /\ ky_pc = "in"
    /\ place \notin DOMAIN ky_keys
    /\ ky_keys' = ky_keys @@ (place :> <<name_key(place, ky_a), name_key(place, ky_b)>>)
    /\ UNCHANGED <<ky_pc, ky_a, ky_b, notKeys>>

NextKeys == \E place \in Normalizers : normalize_names(place)

SpecKeys == InitKeys /\ [][NextKeys]_vars

\* C26: the places that normalize a player name apply the same
\* normalization: one of them gives two names the same key if and only if
\* every other one does
C26_SameNormalization ==
    \A p, q \in DOMAIN ky_keys :
        (ky_keys[p][1] = ky_keys[p][2]) <=> (ky_keys[q][1] = ky_keys[q][2])

-----------------------------------------------------------------------------
(* The three records of a pick: Player.drafted, Team.roster and            *)
(* DraftSimulator.drafted_players                                          *)

\* the places of the rosters: team, position, index in the position's list
RosterSlots ==
    UNION {{<<t, pos, k>> : k \in 1..Len(roster[t][pos])} :
               <<t, pos>> \in (1..Len(teams)) \X Positions}

\* the pool players whose drafted flag is set
DraftedFlags == {i \in 1..Len(players) : drafted[i]}

\* C27: in every reachable state of the draft the three records of what has
\* been drafted agree: the length of drafted_players equals the number of
\* pool players with drafted = TRUE, which equals the number of players over
\* all team rosters; every drafted player is in a roster, and drafted_by of
\* every player in a roster is the name of the team that holds it
C27_DraftRecordsAgree ==
    /\ Len(drafted_players) = Cardinality(DraftedFlags)
    /\ Cardinality(DraftedFlags) = Cardinality(RosterSlots)
    /\ \A i \in DraftedFlags :
           \E slot \in RosterSlots :
               /\ roster[slot[1]][slot[2]][slot[3]] = i
               /\ drafted_by[i] = teams[slot[1]]
    /\ \A slot \in RosterSlots :
           /\ drafted[roster[slot[1]][slot[2]][slot[3]]]
           /\ drafted_by[roster[slot[1]][slot[2]][slot[3]]] = teams[slot[1]]

\* a finished draft in which two teams hold players
C27_Witness ==
    /\ pc = "done"
    /\ Len(drafted_players) >= 2
    /\ \E s1, s2 \in RosterSlots : s1[1] # s2[1]

\* run_draft, lines 272-467: the inner loop over round_draft_order has just
\* ended for round r (the next round starts, or the draft is over)
RoundEnded(r) ==
    /\ turn.team # 0
    /\ turn.over
    /\ \/ pc = "clock" /\ pick_num = 1 /\ round_num = r + 1
       \/ pc = "done" /\ round_num = r

\* the number of times team t has been put on the clock
turns_of(t) == Cardinality({i \in 1..Len(turns) : turns[i] = t})

\* C28: at the end of round r every seat of draft_order has been put on the
\* clock exactly once in each of the rounds 1..r, every registered team has
\* had exactly r turns and holds at most r players, and the overall pick
\* counter equals r times the number of teams
C28_RoundAccounting ==
    \A r \in 1..max_rounds :
        RoundEnded(r) =>
            /\ \A q \in 1..r, k \in 1..Len(draft_order) :
                   Cardinality({i \in 1..Len(turns) :
                       /\ (q - 1) * Len(draft_order) < i
                       /\ i <= q * Len(draft_order)
                       /\ turns[i] = draft_order[k]}) = 1
            /\ \A t \in 1..Len(teams) :
                   /\ turns_of(t) = r
                   /\ Cardinality({slot \in RosterSlots : slot[1] = t}) <= r
            /\ pick_counter = r * Len(teams)

\* C29: for every registered team and every position of {QB, RB, WR, TE, K,
\* DST}, the count that get_team_positions returns equals the number of
\* players in the team's own roster at that position, in every reachable
\* state of a draft and for every registered team names
C29_PositionCountsMatchRoster ==
    \A t \in 1..Len(teams), pos \in Positions :
        get_team_positions(t)[pos] = Len(roster[t][pos])

\* the messages that the conversation of the step has added to all_messages
own_messages ==
    SubSeq(all_messages', Len(all_messages) + 1, Len(all_messages'))

\* make_draft_selection, lines 526-587, on the messages msgs: the extracted
\* name, else the fallback selection
selection_from(msgs) ==
    LET extracted == extract_player_name_from_output(msgs)
    IN  IF extracted # NoName THEN extracted
        ELSE fallback_selection(turn.team, round_num)

\* C30: the name that make_draft_selection returns for a pick is the name
\* that the messages of the pick's own last conversation give (with the
\* roster and the available players): messages captured during earlier
\* picks or during earlier failed attempts of the pick have no influence
C30_OwnConversationOnly ==
    [][(pc = "chat" /\ sel'.by # "none")
           => sel'.name = selection_from(own_messages)]_vars

====
